---- MODULE Spec2Model ----
(***************************************************************************)
(* Model of the kv-rs storage engine (kv/src/storage): the append-only     *)
(* Log with its recovery scan, the in-memory KeyDir, the LogCask engine    *)
(* built from both, and the BTreeMap-backed Memory engine.                 *)
(*                                                                         *)
(* A file is a sequence of bytes; entries are encoded as the code encodes  *)
(* them (u32 big-endian key length, i32 big-endian value length or -1,     *)
(* key bytes, value bytes) and recovery parses those bytes again.          *)
(* Engines are opened with LogCask::new, i.e. with try_lock = true.        *)
(***************************************************************************)
EXTENDS Integers, Sequences, FiniteSets, TLC

(***************************************************************************)
(* Bounds of the model.                                                    *)
(***************************************************************************)
\* Most entries the live log holds before further writes are refused.
MaxLogEntries == 3

\* Longest file that a program other than the engine leaves at the log's
\* path.
MaxForeignLen == 17
MaxSizedEntries == 2
MaxFailedWrites == 1

\* Keys and values the operations draw from (byte strings).
Keys == {<<>>, <<97>>}
Vals == {<<>>, <<5>>}

\* The two engine handles (two opens of the same path, in one or two
\* processes), and the mark of a lock nobody holds.
Inst == {"first", "second"}
NoInst == "nobody"

(***************************************************************************)
(* Paths.  A path is a stem and an extension, which is all that            *)
(* PathBuf::set_extension looks at.                                        *)
(***************************************************************************)
VARIABLE path  \* Log.path: the path the engine is opened at

\* The path of the tests, and the paths an engine can be given: without an
\* extension, with the extension "db", with the extension "new".
TestPath == [stem |-> "mydb", ext |-> ""]
EnginePaths == {[stem |-> "mydb", ext |-> e] : e \in {"", "db", "new"}}

LivePath == path

set_extension(p, ext) == [stem |-> p.stem, ext |-> ext]

TmpPath == set_extension(LivePath, "new")

Paths == {LivePath, TmpPath}

(***************************************************************************)
(* Fixed-width integers and their big-endian encodings.  Every length of   *)
(* the model is below 2^31, so `as u32` and `as i32` of a length keep its  *)
(* value; the encodings below are exact for the whole i32 range.           *)
(***************************************************************************)
TwoTo8 == 256

\* The big-endian bytes of n, 0 <= n < 2^31.
BeBytes(n) ==
  << (n \div (TwoTo8 * TwoTo8 * TwoTo8)) % TwoTo8,
     (n \div (TwoTo8 * TwoTo8)) % TwoTo8,
     (n \div TwoTo8) % TwoTo8,
     n % TwoTo8 >>

\* u32::to_be_bytes
u32_to_be_bytes(n) == BeBytes(n)

\* i32::to_be_bytes: two's complement, -n-1 being the complement of n.
i32_to_be_bytes(n) ==
  IF n >= 0 THEN BeBytes(n)
  ELSE LET c == BeBytes(-(n + 1)) IN [k \in 1..4 |-> 255 - c[k]]

\* The number the big-endian bytes b spell, their top bit being clear.
BeValue(b) == ((b[1] * TwoTo8 + b[2]) * TwoTo8 + b[3]) * TwoTo8 + b[4]

\* Whether u32::from_be_bytes(b) exceeds i32::MAX.
u32_above_i32_max(b) == b[1] >= 128

\* i32::from_be_bytes
i32_from_be_bytes(b) ==
  IF b[1] < 128 THEN BeValue(b)
  ELSE -BeValue([k \in 1..4 |-> 255 - b[k]]) - 1

(***************************************************************************)
(* Option and Result values.  Some(v) is <<v>>, None is <<>>.              *)
(***************************************************************************)
Some(v) == <<v>>
None == <<>>

Ok(v) == [ok |-> TRUE, val |-> v]

\* Values returned inside Ok by delete: the unit value () and an i64.
Unit == [type |-> "()"]
I64(n) == [type |-> "i64", n |-> n]
Err == [ok |-> FALSE, val |-> <<>>]

(***************************************************************************)
(* std::collections::BTreeMap<Vec<u8>, _>: a function on a finite set of   *)
(* keys, iterated in the order of Vec<u8>, which is lexicographic.         *)
(***************************************************************************)
RECURSIVE KeyLess(_, _)
KeyLess(a, b) ==
  IF b = <<>> THEN FALSE
  ELSE IF a = <<>> THEN TRUE
  ELSE IF a[1] # b[1] THEN a[1] < b[1]
  ELSE KeyLess(Tail(a), Tail(b))

KeyLeq(a, b) == a = b \/ KeyLess(a, b)

BTreeNew == [k \in {} |-> <<>>]

BTreeInsert(map, k, v) ==
  [x \in (DOMAIN map) \cup {k} |-> IF x = k THEN v ELSE map[x]]

BTreeRemove(map, k) == [x \in (DOMAIN map) \ {k} |-> map[x]]

BTreeGet(map, k) == IF k \in DOMAIN map THEN Some(map[k]) ELSE None

BTreeLen(map) == Cardinality(DOMAIN map)

\* The keys of a set in ascending order.
RECURSIVE SortKeys(_)
SortKeys(S) ==
  IF S = {} THEN <<>>
  ELSE LET lo == CHOOSE x \in S : \A y \in S : KeyLeq(x, y)
       IN <<lo>> \o SortKeys(S \ {lo})

\* BTreeMap::iter: the keys in ascending order.
BTreeIter(map) == SortKeys(DOMAIN map)

\* std::ops::Bound
Unbounded == [kind |-> "Unbounded", key |-> <<>>]
Included(k) == [kind |-> "Included", key |-> k]
Excluded(k) == [kind |-> "Excluded", key |-> k]

AboveLower(lo, k) ==
  CASE lo.kind = "Unbounded" -> TRUE
    [] lo.kind = "Included" -> KeyLeq(lo.key, k)
    [] lo.kind = "Excluded" -> KeyLess(lo.key, k)

BelowUpper(hi, k) ==
  CASE hi.kind = "Unbounded" -> TRUE
    [] hi.kind = "Included" -> KeyLeq(k, hi.key)
    [] hi.kind = "Excluded" -> KeyLess(k, hi.key)

\* BTreeMap::range panics on these bounds.
RangePanics(lo, hi) ==
  /\ lo.kind # "Unbounded"
  /\ hi.kind # "Unbounded"
  /\ \/ KeyLess(hi.key, lo.key)
     \/ lo.key = hi.key /\ lo.kind = "Excluded" /\ hi.kind = "Excluded"

\* BTreeMap::range: the keys within the bounds, ascending.
BTreeRange(map, lo, hi) ==
  SortKeys({k \in DOMAIN map : AboveLower(lo, k) /\ BelowUpper(hi, k)})

(***************************************************************************)
(* Log (log.rs): pure functions on the bytes of the log file.              *)
(***************************************************************************)
Take(bytes, n) == SubSeq(bytes, 1, n)
Slice(bytes, pos, len) == SubSeq(bytes, pos + 1, pos + len)

\* Faulty variant of write_entry: the entry is written at SeekFrom::Start(0)
\* instead of SeekFrom::End(0), over what the file holds there.
write_entry_at_start(bytes, key, value) ==
  LET entry == BeBytes(Len(key))
                 \o i32_to_be_bytes(IF value = None THEN -1 ELSE Len(value[1]))
                 \o key
                 \o (IF value = None THEN <<>> ELSE value[1])
  IN [bytes |-> entry \o SubSeq(bytes, Len(entry) + 1, Len(bytes)),
      pos |-> 0,
      len |-> Len(entry)]

\* Faulty variant of write_entry: an empty value is written with the
\* tombstone's length field.
write_entry_empty_tombstone(bytes, key, value) ==
  LET empty == value = None \/ value = Some(<<>>)
  IN [bytes |-> bytes \o u32_to_be_bytes(Len(key))
                      \o i32_to_be_bytes(IF empty THEN -1 ELSE Len(value[1]))
                      \o key
                      \o (IF empty THEN <<>> ELSE value[1]),
      pos |-> Len(bytes),
      len |-> 4 + 4 + Len(key) + (IF empty THEN 0 ELSE Len(value[1]))]

\* Faulty variant of write_entry: the returned length is computed from
\* value_len_or_tombstone, which is -1 for a tombstone.
write_entry_signed_len(bytes, key, value) ==
  LET value_len_or_tombstone == IF value = None THEN -1 ELSE Len(value[1])
  IN [bytes |-> bytes \o u32_to_be_bytes(Len(key))
                      \o i32_to_be_bytes(value_len_or_tombstone)
                      \o key
                      \o (IF value = None THEN <<>> ELSE value[1]),
      pos |-> Len(bytes),
      len |-> 4 + 4 + Len(key) + value_len_or_tombstone]

\* Log::write_entry.  value is Some(bytes) or None (a tombstone).  Returns
\* the file after the append and the (pos, len) the code returns.
write_entry(bytes, key, value) ==
  LET key_len == Len(key)
      value_len == IF value = None THEN 0 ELSE Len(value[1])
      value_len_or_tombstone == IF value = None THEN -1 ELSE Len(value[1])
      len == 4 + 4 + key_len + value_len
      pos == Len(bytes)
  IN [bytes |-> bytes \o u32_to_be_bytes(key_len)
                      \o i32_to_be_bytes(value_len_or_tombstone)
                      \o key
                      \o (IF value = None THEN <<>> ELSE value[1]),
      pos |-> pos,
      len |-> len]

\* Log::read_value: seek to value_pos and read_exact value_len bytes.
read_value(bytes, value_pos, value_len) ==
  IF value_len = 0 THEN Ok(<<>>)
  ELSE IF value_pos + value_len <= Len(bytes)
       THEN Ok(Slice(bytes, value_pos, value_len))
       ELSE Err

\* Faulty variant of read_entry: a value length of 0 is taken for a
\* tombstone (l > 0 instead of l >= 0).
read_entry_zero_tombstone(bytes, pos) ==
  LET file_len == Len(bytes)
      NoEntry == [eof |-> TRUE, key |-> <<>>, value_pos |-> 0, value_len |-> None]
  IN IF pos + 8 > file_len THEN NoEntry
     ELSE IF u32_above_i32_max(Slice(bytes, pos, 4)) THEN NoEntry
     ELSE LET key_len == BeValue(Slice(bytes, pos, 4))
              l == i32_from_be_bytes(Slice(bytes, pos + 4, 4))
              value_len_or_tombstone == IF l > 0 THEN Some(l) ELSE None
              value_pos == pos + 4 + 4 + key_len
          IN IF value_pos > file_len THEN NoEntry
             ELSE IF /\ value_len_or_tombstone # None
                     /\ value_pos + value_len_or_tombstone[1] > file_len
                  THEN NoEntry
                  ELSE [eof |-> FALSE,
                        key |-> Slice(bytes, pos + 8, key_len),
                        value_pos |-> value_pos,
                        value_len |-> value_len_or_tombstone]

\* Faulty variant of read_entry: the value is not checked against the end
\* of the file.
read_entry_unchecked(bytes, pos) ==
  LET file_len == Len(bytes)
      NoEntry == [eof |-> TRUE, key |-> <<>>, value_pos |-> 0, value_len |-> None]
  IN IF pos + 8 > file_len THEN NoEntry
     ELSE IF u32_above_i32_max(Slice(bytes, pos, 4)) THEN NoEntry
     ELSE LET key_len == BeValue(Slice(bytes, pos, 4))
              l == i32_from_be_bytes(Slice(bytes, pos + 4, 4))
              value_len_or_tombstone == IF l >= 0 THEN Some(l) ELSE None
              value_pos == pos + 4 + 4 + key_len
          IN IF value_pos > file_len THEN NoEntry
             ELSE [eof |-> FALSE,
                   key |-> Slice(bytes, pos + 8, key_len),
                   value_pos |-> value_pos,
                   value_len |-> value_len_or_tombstone]

\* Faulty variant of read_entry: a value that ends at the very end of the
\* file is taken to extend beyond it (>= instead of >).
read_entry_strict_end(bytes, pos) ==
  LET file_len == Len(bytes)
      NoEntry == [eof |-> TRUE, key |-> <<>>, value_pos |-> 0, value_len |-> None]
  IN IF pos + 8 > file_len THEN NoEntry
     ELSE IF u32_above_i32_max(Slice(bytes, pos, 4)) THEN NoEntry
     ELSE LET key_len == BeValue(Slice(bytes, pos, 4))
              l == i32_from_be_bytes(Slice(bytes, pos + 4, 4))
              value_len_or_tombstone == IF l >= 0 THEN Some(l) ELSE None
              value_pos == pos + 4 + 4 + key_len
          IN IF value_pos > file_len THEN NoEntry
             ELSE IF /\ value_len_or_tombstone # None
                     /\ value_pos + value_len_or_tombstone[1] >= file_len
                  THEN NoEntry
                  ELSE [eof |-> FALSE,
                        key |-> Slice(bytes, pos + 8, key_len),
                        value_pos |-> value_pos,
                        value_len |-> value_len_or_tombstone]

\* Faulty variant of read_entry: the key is read with a read that may
\* return fewer bytes than asked for, so that a key region past the end of
\* the file is not an error.
read_entry_short_key(bytes, pos) ==
  LET file_len == Len(bytes)
      NoEntry == [eof |-> TRUE, key |-> <<>>, value_pos |-> 0, value_len |-> None]
  IN IF pos + 8 > file_len THEN NoEntry
     ELSE IF u32_above_i32_max(Slice(bytes, pos, 4)) THEN NoEntry
     ELSE LET key_len == BeValue(Slice(bytes, pos, 4))
              l == i32_from_be_bytes(Slice(bytes, pos + 4, 4))
              value_len_or_tombstone == IF l >= 0 THEN Some(l) ELSE None
              value_pos == pos + 4 + 4 + key_len
          IN IF /\ value_len_or_tombstone # None
                /\ (\/ value_pos > file_len
                    \/ value_pos + value_len_or_tombstone[1] > file_len)
             THEN NoEntry
             ELSE [eof |-> FALSE,
                   key |-> Slice(bytes, pos + 8,
                                 IF value_pos > file_len
                                 THEN file_len - pos - 8 ELSE key_len),
                   value_pos |-> value_pos,
                   value_len |-> value_len_or_tombstone]

\* Faulty variant of read_entry: value_pos counts one length prefix only,
\* `pos + 4 + key_len`.
read_entry_one_prefix(bytes, pos) ==
  LET file_len == Len(bytes)
      NoEntry == [eof |-> TRUE, key |-> <<>>, value_pos |-> 0, value_len |-> None]
  IN IF pos + 8 > file_len THEN NoEntry
     ELSE IF u32_above_i32_max(Slice(bytes, pos, 4)) THEN NoEntry
     ELSE LET key_len == BeValue(Slice(bytes, pos, 4))
              l == i32_from_be_bytes(Slice(bytes, pos + 4, 4))
              value_len_or_tombstone == IF l >= 0 THEN Some(l) ELSE None
              value_pos == pos + 4 + key_len
          IN IF pos + 8 + key_len > file_len THEN NoEntry
             ELSE IF /\ value_len_or_tombstone # None
                     /\ value_pos + value_len_or_tombstone[1] > file_len
                  THEN NoEntry
                  ELSE [eof |-> FALSE,
                        key |-> Slice(bytes, pos + 8, key_len),
                        value_pos |-> value_pos,
                        value_len |-> value_len_or_tombstone]

\* One iteration of the loop of Log::build_keydir at offset pos: the entry
\* read there, or eof when a read_exact or the value bound check hits the
\* end of the file.  A key length above i32::MAX exceeds every file of the
\* model, so the read_exact of the key hits the end of the file.
read_entry(bytes, pos) ==
  LET file_len == Len(bytes)
      NoEntry == [eof |-> TRUE, key |-> <<>>, value_pos |-> 0, value_len |-> None]
  IN IF pos + 8 > file_len THEN NoEntry
     ELSE IF u32_above_i32_max(Slice(bytes, pos, 4)) THEN NoEntry
     ELSE LET key_len == BeValue(Slice(bytes, pos, 4))
              l == i32_from_be_bytes(Slice(bytes, pos + 4, 4))
              value_len_or_tombstone == IF l >= 0 THEN Some(l) ELSE None
              value_pos == pos + 4 + 4 + key_len
          IN IF value_pos > file_len THEN NoEntry
             ELSE IF /\ value_len_or_tombstone # None
                     /\ value_pos + value_len_or_tombstone[1] > file_len
                  THEN NoEntry
                  ELSE [eof |-> FALSE,
                        key |-> Slice(bytes, pos + 8, key_len),
                        value_pos |-> value_pos,
                        value_len |-> value_len_or_tombstone]

\* Faulty variant of the loop of build_keydir: a tombstone is skipped
\* without removing its key.
RECURSIVE build_keydir_keep(_, _, _)
build_keydir_keep(bytes, pos, keydir) ==
  IF pos >= Len(bytes) THEN [keydir |-> keydir, len |-> Len(bytes)]
  ELSE LET e == read_entry(bytes, pos)
       IN IF e.eof THEN [keydir |-> keydir, len |-> pos]
          ELSE IF e.value_len # None
               THEN build_keydir_keep(bytes, e.value_pos + e.value_len[1],
                      BTreeInsert(keydir, e.key, <<e.value_pos, e.value_len[1]>>))
               ELSE build_keydir_keep(bytes, e.value_pos, keydir)

\* Faulty variant of the loop of build_keydir: an entry whose header and key
\* are in the file is put into the keydir before its value region is
\* checked against the end of the file.
RECURSIVE build_keydir_partial(_, _, _)
build_keydir_partial(bytes, pos, keydir) ==
  IF pos >= Len(bytes) THEN [keydir |-> keydir, len |-> Len(bytes)]
  ELSE LET e == read_entry(bytes, pos)
           key_len == BeValue(Slice(bytes, pos, 4))
           l == i32_from_be_bytes(Slice(bytes, pos + 4, 4))
       IN IF e.eof
          THEN IF /\ pos + 8 <= Len(bytes)
                  /\ ~u32_above_i32_max(Slice(bytes, pos, 4))
                  /\ pos + 8 + key_len <= Len(bytes)
                  /\ l >= 0
               THEN [keydir |-> BTreeInsert(keydir, Slice(bytes, pos + 8, key_len),
                                            <<pos + 8 + key_len, l>>),
                     len |-> pos]
               ELSE [keydir |-> keydir, len |-> pos]
          ELSE IF e.value_len # None
               THEN build_keydir_partial(bytes, e.value_pos + e.value_len[1],
                      BTreeInsert(keydir, e.key, <<e.value_pos, e.value_len[1]>>))
               ELSE build_keydir_partial(bytes, e.value_pos,
                      BTreeRemove(keydir, e.key))

\* The loop of Log::build_keydir from offset pos with the keydir built so
\* far.  Returns the keydir and the length the file has afterwards (it is
\* cut with set_len(pos) at an incomplete entry).
RECURSIVE build_keydir_from(_, _, _)
build_keydir_from(bytes, pos, keydir) ==
  IF pos >= Len(bytes) THEN [keydir |-> keydir, len |-> Len(bytes)]
  ELSE LET e == read_entry(bytes, pos)
       IN IF e.eof THEN [keydir |-> keydir, len |-> pos]
          ELSE IF e.value_len # None
               THEN build_keydir_from(bytes, e.value_pos + e.value_len[1],
                      BTreeInsert(keydir, e.key, <<e.value_pos, e.value_len[1]>>))
               ELSE build_keydir_from(bytes, e.value_pos,
                      BTreeRemove(keydir, e.key))

\* Log::build_keydir
build_keydir(bytes) == build_keydir_from(bytes, 0, BTreeNew)

\* The iterations of the loop of Log::build_keydir from offset pos, in their
\* order: the offset each starts at, the offset it leaves in pos, and
\* whether it is the one that cuts the file with set_len(pos) and breaks.
RECURSIVE build_keydir_iterations(_, _)
build_keydir_iterations(bytes, pos) ==
  IF pos >= Len(bytes) THEN <<>>
  ELSE LET e == read_entry(bytes, pos)
           next == IF e.value_len # None THEN e.value_pos + e.value_len[1]
                   ELSE e.value_pos
       IN IF e.eof THEN <<[pos |-> pos, next |-> pos, cut |-> TRUE]>>
          ELSE <<[pos |-> pos, next |-> next, cut |-> FALSE]>>
                 \o build_keydir_iterations(bytes, next)

(***************************************************************************)
(* LogCask (log_cask.rs) as functions of the bytes of its log file and of  *)
(* its keydir.                                                             *)
(***************************************************************************)
\* Faulty variant of LogCask::set: the entry is appended but the keydir is
\* left as it was.
LogCask_set_stale(bytes, keydir, key, value) ==
  [bytes |-> write_entry(bytes, key, Some(value)).bytes, keydir |-> keydir]

\* Faulty variant of LogCask::set: the value offset is taken to be the end
\* of the header, as if keys were empty.
LogCask_set_header(bytes, keydir, key, value) ==
  LET w == write_entry(bytes, key, Some(value))
  IN [bytes |-> w.bytes,
      keydir |-> BTreeInsert(keydir, key, <<w.pos + 8, Len(value)>>)]

\* LogCask::set: the file and keydir after a successful call.
LogCask_set(bytes, keydir, key, value) ==
  LET w == write_entry(bytes, key, Some(value))
      value_len == Len(value)
  IN [bytes |-> w.bytes,
      keydir |-> BTreeInsert(keydir, key, <<w.pos + w.len - value_len, value_len>>)]

\* Log::write_entry ended by an I/O error of the flush of its BufWriter
\* after written bytes of the entry reached the file: the file afterwards.
write_entry_fails(bytes, key, value, written) ==
  Take(write_entry(bytes, key, value).bytes, Len(bytes) + written)

\* Faulty variant of a failed LogCask::set: the KeyDir has the entry
\* although write_entry returned an error.
LogCask_set_fails_inserted(bytes, keydir, key, value, written) ==
  [bytes |-> write_entry_fails(bytes, key, Some(value), written),
   keydir |-> BTreeInsert(keydir, key,
                          <<Len(bytes) + 8 + Len(key), Len(value)>>)]

\* LogCask::set when write_entry returns an error: `?` returns it before
\* the KeyDir is touched.
LogCask_set_fails(bytes, keydir, key, value, written) ==
  [bytes |-> write_entry_fails(bytes, key, Some(value), written),
   keydir |-> keydir]

\* LogCask::delete when write_entry returns an error: `?` returns it before
\* the key is removed.
LogCask_delete_fails(bytes, keydir, key, written) ==
  [bytes |-> write_entry_fails(bytes, key, None, written),
   keydir |-> keydir]

\* Faulty variant of LogCask::delete: the tombstone is appended but the key
\* stays in the keydir.
LogCask_delete_keep(bytes, keydir, key) ==
  [bytes |-> write_entry(bytes, key, None).bytes, keydir |-> keydir]

\* LogCask::delete: the file and keydir after a successful call.
\* Faulty variant of LogCask::delete: a key that is not in the KeyDir gets
\* no tombstone.
LogCask_delete_silent(bytes, keydir, key) ==
  IF key \in DOMAIN keydir
  THEN [bytes |-> write_entry(bytes, key, None).bytes,
        keydir |-> BTreeRemove(keydir, key)]
  ELSE [bytes |-> bytes, keydir |-> keydir]

\* Faulty variant of LogCask::delete: a key that is not in the KeyDir is
\* entered with the tombstone's position and an empty value.
LogCask_delete_marks(bytes, keydir, key) ==
  LET w == write_entry(bytes, key, None)
  IN [bytes |-> w.bytes,
      keydir |-> IF key \in DOMAIN keydir THEN BTreeRemove(keydir, key)
                 ELSE BTreeInsert(keydir, key, <<Len(w.bytes), 0>>)]

\* What LogCask::delete returns inside Ok: it is declared CResult<()> and
\* ends in Ok(()).
LogCask_delete_returns == Unit

LogCask_delete(bytes, keydir, key) ==
  LET w == write_entry(bytes, key, None)
  IN [bytes |-> w.bytes, keydir |-> BTreeRemove(keydir, key)]

\* LogCask::get: Ok(Some(value)), Ok(None) or Err.
LogCask_get(bytes, keydir, key) ==
  IF key \in DOMAIN keydir
  THEN LET r == read_value(bytes, keydir[key][1], keydir[key][2])
       IN IF r.ok THEN Ok(Some(r.val)) ELSE Err
  ELSE Ok(None)

\* LogScanIterator collected into a CResult<Vec<_>>: the items of the keys
\* in the order given, or Err when a value cannot be read.
ScanCollect(bytes, keydir, keys) ==
  IF \E n \in 1..Len(keys) :
       ~read_value(bytes, keydir[keys[n]][1], keydir[keys[n]][2]).ok
  THEN Err
  ELSE Ok([n \in 1..Len(keys) |->
            <<keys[n], read_value(bytes, keydir[keys[n]][1], keydir[keys[n]][2]).val>>])

\* Faulty variant of LogCask::scan: an excluded upper bound is included.
LogCask_scan_inclusive(bytes, keydir, lo, hi) ==
  ScanCollect(bytes, keydir,
    BTreeRange(keydir, lo, IF hi.kind = "Excluded" THEN Included(hi.key) ELSE hi))

\* LogCask::scan(range), collected.
LogCask_scan(bytes, keydir, lo, hi) ==
  ScanCollect(bytes, keydir, BTreeRange(keydir, lo, hi))

\* The order in which next_back yields what next yields.
Reverse(seq) == [n \in 1..Len(seq) |-> seq[Len(seq) + 1 - n]]

\* Faulty variant of the reversed scan: yields from the front.
LogCask_scan_rev_forward(bytes, keydir, lo, hi) ==
  ScanCollect(bytes, keydir, BTreeRange(keydir, lo, hi))

\* LogCask::scan(range).rev(), collected: LogScanIterator::next_back takes
\* the items of the KeyDir's range from the back.
LogCask_scan_rev(bytes, keydir, lo, hi) ==
  ScanCollect(bytes, keydir, Reverse(BTreeRange(keydir, lo, hi)))

\* LogCask::write_log: the entries of the keys still to write are appended
\* to the new log in key order.  ok is FALSE when a value cannot be read
\* from the current log; the new file then holds what was written so far.
RECURSIVE write_log_from(_, _, _, _, _)
write_log_from(bytes, keydir, keys, new_bytes, new_keydir) ==
  IF keys = <<>> THEN [ok |-> TRUE, bytes |-> new_bytes, keydir |-> new_keydir]
  ELSE LET key == Head(keys)
           value_len == keydir[key][2]
           value == read_value(bytes, keydir[key][1], value_len)
       IN IF ~value.ok
          THEN [ok |-> FALSE, bytes |-> new_bytes, keydir |-> new_keydir]
          ELSE LET w == write_entry(new_bytes, key, Some(value.val))
               IN write_log_from(bytes, keydir, Tail(keys), w.bytes,
                    BTreeInsert(new_keydir, key,
                                <<w.pos + w.len - value_len, value_len>>))

\* Faulty variant of write_log: the new log is not emptied and starts with
\* the bytes of the current one.
write_log_keep(bytes, keydir, new_file) ==
  write_log_from(bytes, keydir, BTreeIter(keydir), bytes, BTreeNew)

\* Faulty variant of write_log: keys with an empty value are not written.
write_log_nonempty(bytes, keydir, new_file) ==
  LET kept == {k \in DOMAIN keydir : keydir[k][2] > 0}
  IN write_log_from(bytes, keydir, SortKeys(kept), <<>>, BTreeNew)

\* Faulty variant of write_log: the KeyDir is walked from its last key to
\* its first.
write_log_descending(bytes, keydir, new_file) ==
  write_log_from(bytes, keydir, Reverse(BTreeIter(keydir)), <<>>, BTreeNew)

\* File::set_len to a length the file reaches: the bytes up to it are kept.
set_len(file_bytes, size) == Take(file_bytes, size)

\* Faulty variant of write_log: the new log is not emptied, the entries are
\* appended to what the file at the new path held.
write_log_appending(bytes, keydir, new_file) ==
  write_log_from(bytes, keydir, BTreeIter(keydir), new_file, BTreeNew)

\* LogCask::write_log: new_file is what the file at the new path holds when
\* Log::new opens it; set_len(0) empties it, then the entries are written.
write_log(bytes, keydir, new_file) ==
  write_log_from(bytes, keydir, BTreeIter(keydir), set_len(new_file, 0),
                 BTreeNew)

\* Iterator::rposition(|b| *b != 0xff), counted from 1; 0 when there is none.
rposition_not_ff(prefix) ==
  LET S == {n \in 1..Len(prefix) : prefix[n] # 255}
  IN IF S = {} THEN 0 ELSE CHOOSE n \in S : \A x \in S : x <= n

\* Faulty variant: the end is the prefix with its last byte incremented
\* (wrapping), whatever that byte is.
scan_prefix_bounds_last_byte(prefix) ==
  <<Included(prefix),
    IF prefix = <<>> THEN Unbounded
    ELSE Excluded(Take(prefix, Len(prefix) - 1)
                    \o <<(prefix[Len(prefix)] + 1) % TwoTo8>>)>>

\* The bounds Engine::scan_prefix scans.
scan_prefix_bounds(prefix) ==
  LET n == rposition_not_ff(prefix)
  IN <<Included(prefix),
       IF n = 0 THEN Unbounded
       ELSE Excluded(Take(prefix, n - 1) \o <<prefix[n] + 1>>)>>

\* Engine::scan_prefix on a LogCask, collected.
LogCask_scan_prefix(bytes, keydir, prefix) ==
  LogCask_scan(bytes, keydir, scan_prefix_bounds(prefix)[1],
               scan_prefix_bounds(prefix)[2])

\* Faulty variant of the fold of LogCask::status: the fields of the keydir
\* entry are taken in the wrong order, and value_pos is added for value_len.
RECURSIVE keydir_size_pos(_, _)
keydir_size_pos(keydir, keys) ==
  IF keys = <<>> THEN 0
  ELSE Len(Head(keys)) + keydir[Head(keys)][1]
         + keydir_size_pos(keydir, Tail(keys))

\* The fold of LogCask::status over the keys still to visit: key.len() plus
\* value_len of every keydir entry.
RECURSIVE keydir_size(_, _)
keydir_size(keydir, keys) ==
  IF keys = <<>> THEN 0
  ELSE Len(Head(keys)) + keydir[Head(keys)][2] + keydir_size(keydir, Tail(keys))

Status(name, keys, size, total_disk_size, live_disk_size, garbage_disk_size) ==
  [name |-> name, keys |-> keys, size |-> size,
   total_disk_size |-> total_disk_size,
   live_disk_size |-> live_disk_size,
   garbage_disk_size |-> garbage_disk_size]

\* Faulty variant of LogCask::status: the length prefixes are left out of
\* the live size.
LogCask_status_no_prefix(bytes, keydir) ==
  LET keys == BTreeLen(keydir)
      size == keydir_size(keydir, BTreeIter(keydir))
  IN Status("log cask", keys, size, Len(bytes), size, Len(bytes) - size)

\* Faulty variant of LogCask::status: size is what the file holds besides
\* one length prefix per key, as if the log had no garbage.
LogCask_status_file_size(bytes, keydir) ==
  LET keys == BTreeLen(keydir)
      total_disk_size == Len(bytes)
      size == total_disk_size - 8 * keys
      live_disk_size == size + 8 * keys
  IN Status("log cask", keys, size, total_disk_size, live_disk_size,
            total_disk_size - live_disk_size)

\* LogCask::status
LogCask_status(bytes, keydir) ==
  LET keys == BTreeLen(keydir)
      size == keydir_size(keydir, BTreeIter(keydir))
      total_disk_size == Len(bytes)
      live_disk_size == size + 8 * keys
      garbage_disk_size == total_disk_size - live_disk_size
  IN Status("log cask", keys, size, total_disk_size, live_disk_size,
            garbage_disk_size)

(***************************************************************************)
(* Memory (memory.rs): a BTreeMap from key to value.                       *)
(***************************************************************************)
Memory_set(map, key, value) == BTreeInsert(map, key, value)

Memory_delete(map, key) == BTreeRemove(map, key)

\* What Memory::delete returns inside Ok: Ok(1), whether or not the key was
\* there.
Memory_delete_returns == I64(1)

Memory_get(map, key) == Ok(BTreeGet(map, key))

\* The fold of Memory::status over the keys still to visit: k.len() plus
\* v.len() of every pair.
RECURSIVE data_size(_, _)
data_size(map, keys) ==
  IF keys = <<>> THEN 0
  ELSE Len(Head(keys)) + Len(map[Head(keys)]) + data_size(map, Tail(keys))

\* Faulty variant: size counts the keys' bytes only.
Memory_status_keys_only(map) ==
  Status("memory", BTreeLen(map),
         data_size([k \in DOMAIN map |-> <<>>], BTreeIter(map)), 0, 0, 0)

\* Memory::status
Memory_status(map) ==
  Status("memory", BTreeLen(map), data_size(map, BTreeIter(map)), 0, 0, 0)

\* MemoryScanIterator over range, collected.
Memory_scan(map, lo, hi) ==
  LET keys == BTreeRange(map, lo, hi)
  IN Ok([n \in 1..Len(keys) |-> <<keys[n], map[keys[n]]>>])

(***************************************************************************)
(* Lengths and offsets of keys and values of up to 2 GB.  A u32 or u64 is  *)
(* told as four 16-bit limbs, lowest first, so that the sums the code      *)
(* computes keep the width the code gives them.                            *)
(***************************************************************************)
TwoTo16 == 65536

\* A usize below 2^31 as u32 or as u64 (`as u32`, `as u64`).
Wide(n) == <<n % TwoTo16, n \div TwoTo16, 0, 0>>

\* a + b over 64 bits, and the carry out of them.
WideAdd(a, b) ==
  LET s1 == a[1] + b[1]
      s2 == a[2] + b[2] + (s1 \div TwoTo16)
      s3 == a[3] + b[3] + (s2 \div TwoTo16)
      s4 == a[4] + b[4] + (s3 \div TwoTo16)
  IN [w |-> <<s1 % TwoTo16, s2 % TwoTo16, s3 % TwoTo16, s4 % TwoTo16>>,
      carry |-> s4 \div TwoTo16]

\* a - b over 64 bits, and the borrow out of them.
WideSub(a, b) ==
  LET d1 == a[1] - b[1]
      b1 == IF d1 < 0 THEN 1 ELSE 0
      d2 == a[2] - b[2] - b1
      b2 == IF d2 < 0 THEN 1 ELSE 0
      d3 == a[3] - b[3] - b2
      b3 == IF d3 < 0 THEN 1 ELSE 0
      d4 == a[4] - b[4] - b3
      b4 == IF d4 < 0 THEN 1 ELSE 0
  IN [w |-> <<d1 + b1 * TwoTo16, d2 + b2 * TwoTo16,
              d3 + b3 * TwoTo16, d4 + b4 * TwoTo16>>,
      borrow |-> b4]

WideLeq(a, b) == WideSub(b, a).borrow = 0

\* An arithmetic result: a number, or the panic of an overflow check
\* ("attempt to add with overflow").
Number(w) == [type |-> "number", w |-> w]
Overflow == [type |-> "panic", w |-> <<>>]

\* a + b on u32: with overflow checks (a debug build) a sum past u32::MAX
\* panics, without them (a release build) it wraps.
u32_add(a, b, overflow_checks) ==
  LET s == WideAdd(a, b).w
  IN IF s[3] # 0 /\ overflow_checks THEN Overflow
     ELSE Number(<<s[1], s[2], 0, 0>>)

\* a + b on u64
u64_add(a, b, overflow_checks) ==
  LET s == WideAdd(a, b)
  IN IF s.carry # 0 /\ overflow_checks THEN Overflow ELSE Number(s.w)

\* a - b on u64
u64_sub(a, b, overflow_checks) ==
  LET d == WideSub(a, b)
  IN IF d.borrow # 0 /\ overflow_checks THEN Overflow ELSE Number(d.w)

\* Log::write_entry told by lengths: the file is file_len bytes long, the
\* key key_len and the value value_len.  The header and the bytes written
\* are those of write_entry; len is `4 + 4 + key_len + value_len` on u32.
write_entry_sized(file_len, key_len, value_len, overflow_checks) ==
  LET head == u32_add(Wide(8), Wide(key_len), overflow_checks)
      len == IF head.type = "panic" THEN Overflow
             ELSE u32_add(head.w, Wide(value_len), overflow_checks)
      key_end == WideAdd(WideAdd(file_len, Wide(8)).w, Wide(key_len)).w
  IN [type |-> IF len.type = "panic" THEN "panic" ELSE "Ok",
      header |-> u32_to_be_bytes(key_len) \o i32_to_be_bytes(value_len),
      value_at |-> key_end,
      file_len |-> WideAdd(key_end, Wide(value_len)).w,
      pos |-> file_len,
      len |-> len.w]

\* The offset LogCask::set puts in the KeyDir:
\* `pos + len as u64 - value_len as u64`.
LogCask_set_value_pos(pos, len, value_len, overflow_checks) ==
  LET end == u64_add(pos, len, overflow_checks)
  IN IF end.type = "panic" THEN Overflow
     ELSE u64_sub(end.w, Wide(value_len), overflow_checks)

\* Log::read_value told by lengths: a seek to an offset above i64::MAX
\* fails, a read past the end of the file is an UnexpectedEof, and any
\* other read returns the bytes of the region, told as (offset, length).
read_value_sized(file_len, value_pos, value_len) ==
  IF value_pos[4] >= TwoTo16 \div 2 THEN Err
  ELSE IF value_len > 0
          /\ ~WideLeq(WideAdd(value_pos, Wide(value_len)).w, file_len)
       THEN Err
  ELSE Ok(<<value_pos, value_len>>)

\* LogCask::get told by lengths.
LogCask_get_sized(file_len, keydir, key_len) ==
  IF key_len \in DOMAIN keydir
  THEN LET r == read_value_sized(file_len, keydir[key_len][1],
                                 keydir[key_len][2])
       IN IF r.ok THEN Ok(Some(r.val)) ELSE Err
  ELSE Ok(None)

\* A LogCask on an empty file, told by lengths: whether the build checks
\* overflow, the file length, key length -> (value_pos, value_len) as the
\* KeyDir, key length -> where write_entry put the value and how long it
\* is, the number of entries, and of the last set its key, what its
\* write_entry returned, what it returned and what the get after it
\* returned.
SizedNew(overflow_checks) ==
  [overflow_checks |-> overflow_checks,
   file_len |-> Wide(0),
   keydir |-> BTreeNew,
   written |-> BTreeNew,
   entries |-> 0,
   key_len |-> 0,
   entry |-> write_entry_sized(Wide(0), 0, 0, FALSE),
   set |-> "new",
   get |-> Ok(None)]

(***************************************************************************)
(* State.                                                                  *)
(***************************************************************************)
VARIABLES
  disk,      \* the files: path -> [bytes, synced]; synced is the length of
             \* the prefix that sync_all has put on the medium
  lock,      \* path -> the handle holding the exclusive lock, or NoInst
  alive,     \* the LogCask handles that are open
  keydir,    \* handle -> its KeyDir
  hist,      \* history: the writes the live log holds, oldest first
  nflushed,  \* history: how many of hist a successful flush covers
  pre,       \* history: what was observed at the last drop, crash or cut,
             \* kept until the next call other than an open
  last,      \* the last call and what it returned
  data,      \* Memory.data of the Memory engine under test
  m,         \* the reference BTreeMap of the random_ops test
  sized,     \* a LogCask told by lengths only, for keys and values of up
             \* to 2 GB: its build profile, file length and KeyDir
  failed     \* history: how many appends an I/O error has ended

vars ==
  <<disk, lock, alive, keydir, hist, nflushed, pre, last, data, m, sized,
    failed, path>>

File(bytes, synced) == [bytes |-> bytes, synced |-> synced]

Min(a, b) == IF a < b THEN a ELSE b

LiveBytes == disk[LivePath].bytes

\* What the file at the path of the new log of a compaction holds when
\* Log::new opens it: the bytes left there, none when it is created.
NewLogBytes ==
  IF set_extension(LivePath, "new") \in DOMAIN disk
  THEN disk[set_extension(LivePath, "new")].bytes ELSE <<>>

NoStatus == [name |-> "none"]

NoEngine == [bytes |-> <<>>, keydir |-> BTreeNew]

NoPre ==
  [kind |-> "none", scan |-> <<>>, hist |-> <<>>, n |-> 0, t |-> 0,
   status |-> NoStatus, engine |-> NoEngine]

Call(op, i, key, val, ok, res) ==
  [op |-> op, inst |-> i, key |-> key, val |-> val, ok |-> ok, res |-> res]

SetOp(key, value) == [op |-> "set", key |-> key, val |-> value]
DeleteOp(key) == [op |-> "delete", key |-> key, val |-> <<>>]

\* The bytes an operation of the history occupies in the log.
EntrySize(w) == 8 + Len(w.key) + Len(w.val)

RECURSIVE EntryEnd(_, _)
EntryEnd(h, n) == IF n = 0 THEN 0 ELSE EntryEnd(h, n - 1) + EntrySize(h[n])

\* How many operations of h lie wholly within the first t bytes.
Surviving(h, t) ==
  CHOOSE n \in 0..Len(h) :
    /\ EntryEnd(h, n) <= t
    /\ n < Len(h) => EntryEnd(h, n + 1) > t

\* The map a sequence of writes leaves: last writer wins.
RECURSIVE Replay(_)
Replay(h) ==
  IF h = <<>> THEN BTreeNew
  ELSE LET w == h[Len(h)]
           before == Replay(Take(h, Len(h) - 1))
       IN IF w.op = "set" THEN BTreeInsert(before, w.key, w.val)
          ELSE BTreeRemove(before, w.key)

\* Faulty variant of sync_all: returns without putting anything on the medium.
sync_all_nothing(file) == file

\* File::sync_all: everything written so far is on the medium.
sync_all(file) == File(file.bytes, Len(file.bytes))

\* Faulty variant of try_lock_exclusive: the lock is never refused.
try_lock_always(file_path) == TRUE

\* FileExt::try_lock_exclusive: succeeds when nobody holds the lock.
try_lock_exclusive(file_path) == lock[file_path] = NoInst

Init ==
  /\ path = TestPath
  /\ disk = [p \in {} |-> File(<<>>, 0)]
  /\ lock = [p \in Paths |-> NoInst]
  /\ alive = {}
  /\ keydir = [i \in Inst |-> BTreeNew]
  /\ hist = <<>>
  /\ nflushed = 0
  /\ pre = NoPre
  /\ last = Call("init", NoInst, <<>>, <<>>, TRUE, <<>>)
  /\ data = BTreeNew
  /\ m = BTreeNew
  /\ sized = SizedNew(TRUE)
  /\ failed = 0

(***************************************************************************)
(* LogCask::new(path): Log::new_with_lock(path, true), then build_keydir.  *)
(***************************************************************************)
\* OpenOptions::create(true).open(path): the file is created when absent.
OpenOrCreate(file_path) ==
  IF file_path \in DOMAIN disk THEN disk
  ELSE [p \in (DOMAIN disk) \cup {file_path} |->
          IF p = file_path THEN File(<<>>, 0) ELSE disk[p]]

LogCask_new(i) ==
  /\ i \notin alive
  /\ LET opened == OpenOrCreate(LivePath)
         r == build_keydir(opened[LivePath].bytes)
     IN IF try_lock_exclusive(LivePath)
        THEN /\ disk' = [opened EXCEPT ![LivePath] =
                           File(Take(@.bytes, r.len), Min(@.synced, r.len))]
             /\ lock' = [lock EXCEPT ![LivePath] = i]
             /\ alive' = alive \cup {i}
             /\ keydir' = [keydir EXCEPT ![i] = r.keydir]
             /\ last' = Call("open", i, <<>>, <<>>, TRUE, <<>>)
        ELSE /\ disk' = opened
             /\ last' = Call("open", i, <<>>, <<>>, FALSE, <<>>)
             /\ UNCHANGED <<lock, alive, keydir>>
  /\ UNCHANGED <<hist, nflushed, pre, data, m, sized, failed, path>>

(***************************************************************************)
(* The Engine operations of an open LogCask.                               *)
(***************************************************************************)
Set(i, key, value) ==
  /\ i \in alive
  /\ Len(hist) < MaxLogEntries
  /\ LET s == LogCask_set(LiveBytes, keydir[i], key, value)
     IN /\ disk' = [disk EXCEPT ![LivePath].bytes = s.bytes]
        /\ keydir' = [keydir EXCEPT ![i] = s.keydir]
  /\ hist' = Append(hist, SetOp(key, value))
  /\ pre' = NoPre
  /\ last' = Call("set", i, key, value, TRUE, <<>>)
  /\ UNCHANGED <<lock, alive, nflushed>>

Delete(i, key) ==
  /\ i \in alive
  /\ Len(hist) < MaxLogEntries
  /\ LET s == LogCask_delete(LiveBytes, keydir[i], key)
     IN /\ disk' = [disk EXCEPT ![LivePath].bytes = s.bytes]
        /\ keydir' = [keydir EXCEPT ![i] = s.keydir]
  /\ hist' = Append(hist, DeleteOp(key))
  /\ pre' = NoPre
  /\ last' = Call("delete", i, key, <<>>, TRUE, LogCask_delete_returns)
  /\ UNCHANGED <<lock, alive, nflushed>>

\* A set that an I/O error ends after written bytes of its entry, with the
\* log and the KeyDir before it kept for comparison.
SetFails(i, key, value, written) ==
  /\ i \in alive
  /\ failed < MaxFailedWrites
  /\ written \in 0..(8 + Len(key) + Len(value) - 1)
  /\ LET s == LogCask_set_fails(LiveBytes, keydir[i], key, value, written)
     IN /\ disk' = [disk EXCEPT ![LivePath].bytes = s.bytes]
        /\ keydir' = [keydir EXCEPT ![i] = s.keydir]
  /\ failed' = failed + 1
  /\ pre' = [NoPre EXCEPT
               !.kind = "write failed",
               !.t = Len(LiveBytes),
               !.engine = [bytes |-> LiveBytes, keydir |-> keydir[i]]]
  /\ last' = Call("set", i, key, value, FALSE, written)
  /\ UNCHANGED <<lock, alive, hist, nflushed, data, m, sized, path>>

\* A delete that an I/O error ends after written bytes of its tombstone.
DeleteFails(i, key, written) ==
  /\ i \in alive
  /\ failed < MaxFailedWrites
  /\ written \in 0..(8 + Len(key) - 1)
  /\ LET s == LogCask_delete_fails(LiveBytes, keydir[i], key, written)
     IN /\ disk' = [disk EXCEPT ![LivePath].bytes = s.bytes]
        /\ keydir' = [keydir EXCEPT ![i] = s.keydir]
  /\ failed' = failed + 1
  /\ pre' = [NoPre EXCEPT
               !.kind = "write failed",
               !.t = Len(LiveBytes),
               !.engine = [bytes |-> LiveBytes, keydir |-> keydir[i]]]
  /\ last' = Call("delete", i, key, <<>>, FALSE, written)
  /\ UNCHANGED <<lock, alive, hist, nflushed, data, m, sized, path>>

Get(i, key) ==
  /\ i \in alive
  /\ LET r == LogCask_get(LiveBytes, keydir[i], key)
     IN last' = Call("get", i, key, <<>>, r.ok, r.val)
  /\ pre' = NoPre
  /\ UNCHANGED <<disk, lock, alive, keydir, hist, nflushed, data, m, sized,
                 failed, path>>

\* The ranges from..to of the random_ops test, and the full range.
ScanRanges ==
  {<<Unbounded, Unbounded>>} \cup
  {<<Included(from), Excluded(to)>> : from \in Keys, to \in Keys}

FullRange == {<<Unbounded, Unbounded>>}

Scan(i, lo, hi) ==
  /\ i \in alive
  /\ ~RangePanics(lo, hi)
  /\ LET r == LogCask_scan(LiveBytes, keydir[i], lo, hi)
     IN last' = Call("scan", i, <<lo, hi>>, <<>>, r.ok, r.val)
  /\ pre' = NoPre
  /\ UNCHANGED <<disk, lock, alive, keydir, hist, nflushed, data, m, sized,
                 failed, path>>

\* LogCask::flush: File::sync_all.
Flush(i) ==
  /\ i \in alive
  /\ disk' = [disk EXCEPT ![LivePath] = sync_all(@)]
  /\ nflushed' = Len(hist)
  /\ last' = Call("flush", i, <<>>, <<>>, TRUE, <<>>)
  /\ pre' = NoPre
  /\ UNCHANGED <<lock, alive, keydir, hist, data, m, sized, failed, path>>

\* Drop for LogCask: flush, then the file is closed and its lock released.
Drop(i) ==
  /\ i \in alive
  /\ disk' = [disk EXCEPT ![LivePath] = sync_all(@)]
  /\ nflushed' = Len(hist)
  /\ lock' = [lock EXCEPT ![LivePath] = NoInst]
  /\ alive' = alive \ {i}
  /\ keydir' = [keydir EXCEPT ![i] = BTreeNew]
  /\ pre' = [NoPre EXCEPT !.kind = "drop",
               !.scan = LogCask_scan(LiveBytes, keydir[i], Unbounded, Unbounded),
               !.hist = hist,
               !.status = LogCask_status(LiveBytes, keydir[i])]
  /\ last' = Call("drop", i, <<>>, <<>>, TRUE, <<>>)
  /\ UNCHANGED <<hist, data, m, sized, failed, path>>

\* Faulty variant of DropFlushFails: the error of the flush ends the drop
\* before the file is closed, and the lock stays.
DropFlushFails_held(i) ==
  /\ i \in alive
  /\ pre' = [NoPre EXCEPT !.kind = "drop", !.hist = hist]
  /\ last' = Call("drop", i, <<>>, <<>>, TRUE, "failed to flush file")
  /\ UNCHANGED <<disk, lock, alive, keydir, hist, nflushed, data, m, sized,
                 failed, path>>

\* Drop for LogCask when its flush fails: the error is logged, nothing more
\* reaches the medium, and the file is closed and its lock released as the
\* fields of the LogCask are dropped.
DropFlushFails(i) ==
  /\ i \in alive
  /\ lock' = [lock EXCEPT ![LivePath] = NoInst]
  /\ alive' = alive \ {i}
  /\ keydir' = [keydir EXCEPT ![i] = BTreeNew]
  /\ pre' = [NoPre EXCEPT !.kind = "drop", !.hist = hist]
  /\ last' = Call("drop", i, <<>>, <<>>, TRUE, "failed to flush file")
  /\ UNCHANGED <<disk, hist, nflushed, data, m, sized, failed, path>>

\* The writes a compacted log holds: one set per live key, in key order.
RECURSIVE CompactedHist(_, _)
CompactedHist(map, keys) ==
  IF keys = <<>> THEN <<>>
  ELSE <<SetOp(Head(keys), map[Head(keys)])>> \o CompactedHist(map, Tail(keys))

\* LogCask::compact: write_log to the path with the extension "new", rename
\* it over the log's path, and switch to the new log and keydir.  When
\* write_log fails the new file is left behind and the engine is unchanged.
LogCask_compact(i) ==
  /\ i \in alive
  /\ LET tmp_path == set_extension(LivePath, "new")
         opened == OpenOrCreate(tmp_path)
         w == write_log(LiveBytes, keydir[i], NewLogBytes)
     IN /\ try_lock_exclusive(tmp_path)
        /\ IF w.ok
           THEN /\ disk' = [p \in (DOMAIN opened) \ {tmp_path} |->
                              IF p = LivePath THEN File(w.bytes, 0) ELSE opened[p]]
                /\ keydir' = [keydir EXCEPT ![i] = w.keydir]
                /\ hist' = CompactedHist(Replay(hist), BTreeIter(Replay(hist)))
                /\ nflushed' = 0
                /\ last' = Call("compact", i, <<>>, <<>>, TRUE, <<>>)
           ELSE /\ disk' = [opened EXCEPT ![tmp_path] = File(w.bytes, 0)]
                /\ last' = Call("compact", i, <<>>, <<>>, FALSE, <<>>)
                /\ UNCHANGED <<keydir, hist, nflushed>>
  /\ UNCHANGED <<lock, alive, data, m, sized, failed, path>>

Compact(i) == LogCask_compact(i) /\ pre' = NoPre

\* Where an I/O error can end LogCask::compact: in write_log at the open of
\* the new log, at its lock or at set_len(0); at the read or write of an
\* entry, the new log then holding the entries before it and nothing or the
\* first four bytes of that entry; or at the rename.
CompactFaults(bytes, kdir) ==
  LET w == write_log(bytes, kdir, NewLogBytes)
      starts == {w.keydir[k][1] - 8 - Len(k) : k \in DOMAIN w.keydir}
  IN {[at |-> a, t |-> 0] : a \in {"open", "lock", "set_len"}}
       \cup {[at |-> "write", t |-> t] : t \in starts \cup {b + 4 : b \in starts}}
       \cup {[at |-> "rename", t |-> Len(w.bytes)]}

\* Faulty variant of a failed compact: the engine has already switched to
\* the new keydir when the error is returned.
LogCask_compact_fails_switched(i, fault) ==
  /\ i \in alive
  /\ fault \in CompactFaults(LiveBytes, keydir[i])
  /\ LET tmp_path == set_extension(LivePath, "new")
         opened == OpenOrCreate(tmp_path)
         w == write_log(LiveBytes, keydir[i], NewLogBytes)
     IN /\ try_lock_exclusive(tmp_path)
        /\ disk' = CASE fault.at = "open" -> disk
                      [] fault.at \in {"lock", "set_len"} -> opened
                      [] fault.at \in {"write", "rename"} ->
                           [opened EXCEPT ![tmp_path] = File(Take(w.bytes, fault.t), 0)]
        /\ keydir' = [keydir EXCEPT ![i] = w.keydir]
  /\ last' = Call("compact", i, <<>>, <<>>, FALSE, fault.at)
  /\ UNCHANGED <<lock, alive, hist, nflushed, data, m, sized, failed, path>>

\* LogCask::compact ended by an I/O error: Err is returned before self.log
\* and self.keydir are assigned, the new Log is dropped (its file closed,
\* its lock released), and the file at the new path is left as it is.
LogCask_compact_fails(i, fault) ==
  /\ i \in alive
  /\ fault \in CompactFaults(LiveBytes, keydir[i])
  /\ LET tmp_path == set_extension(LivePath, "new")
         opened == OpenOrCreate(tmp_path)
         w == write_log(LiveBytes, keydir[i], NewLogBytes)
     IN /\ try_lock_exclusive(tmp_path)
        /\ disk' = CASE fault.at = "open" -> disk
                      [] fault.at \in {"lock", "set_len"} -> opened
                      [] fault.at \in {"write", "rename"} ->
                           [opened EXCEPT ![tmp_path] = File(Take(w.bytes, fault.t), 0)]
  /\ last' = Call("compact", i, <<>>, <<>>, FALSE, fault.at)
  /\ UNCHANGED <<lock, alive, keydir, hist, nflushed, data, m, sized, failed,
                 path>>

\* The steps of LogCask::compact at which the process can stop: the new
\* file created by Log::new (holding what a file left at that path held),
\* emptied by set_len(0), holding the first t bytes of the entries (some
\* whole entries, or these and the first four bytes of the next, or all of
\* them), and renamed over the log's path.
CompactPoints(bytes, kdir) ==
  LET w == write_log(bytes, kdir, NewLogBytes)
      starts == {w.keydir[k][1] - 8 - Len(k) : k \in DOMAIN w.keydir}
  IN {[at |-> a, t |-> 0] : a \in {"created", "truncated"}}
       \cup {[at |-> "written", t |-> t] :
               t \in ((starts \cup {b + 4 : b \in starts}) \ {0})
                       \cup {Len(w.bytes)}}
       \cup {[at |-> "renamed", t |-> Len(w.bytes)]}

\* Faulty variant of compact_files_at: the new log is written at the log's
\* own path.
compact_files_in_place(files, tmp_path, new_bytes, point) ==
  CASE point.at = "created" -> files
    [] point.at = "truncated" ->
         [files EXCEPT ![LivePath] = File(<<>>, 0)]
    [] point.at = "written" ->
         [files EXCEPT ![LivePath] = File(Take(new_bytes, point.t), 0)]
    [] point.at = "renamed" ->
         [p \in (DOMAIN files) \ {tmp_path} |->
            IF p = LivePath THEN File(new_bytes, 0) ELSE files[p]]

\* The files when LogCask::compact has reached a point: files are the files
\* after Log::new(tmp_path), new_bytes what write_log writes in full.
compact_files_at(files, tmp_path, new_bytes, point) ==
  CASE point.at = "created" -> files
    [] point.at = "truncated" ->
         [files EXCEPT ![tmp_path] = File(<<>>, 0)]
    [] point.at = "written" ->
         [files EXCEPT ![tmp_path] = File(Take(new_bytes, point.t), 0)]
    [] point.at = "renamed" ->
         [p \in (DOMAIN files) \ {tmp_path} |->
            IF p = LivePath THEN File(new_bytes, 0) ELSE files[p]]

\* The process stops while LogCask::compact is at a point: the files stay as
\* they are at that point, the handles and their locks are gone.  The log
\* and the history before the compaction are kept for comparison.
CompactCrash(i, point) ==
  /\ i \in alive
  /\ point \in CompactPoints(LiveBytes, keydir[i])
  /\ LET tmp_path == set_extension(LivePath, "new")
         w == write_log(LiveBytes, keydir[i], NewLogBytes)
     IN /\ try_lock_exclusive(tmp_path)
        /\ w.ok
        /\ disk' = compact_files_at(OpenOrCreate(tmp_path), tmp_path,
                                    w.bytes, point)
  /\ hist' = IF point.at = "renamed"
             THEN CompactedHist(Replay(hist), BTreeIter(Replay(hist)))
             ELSE hist
  /\ nflushed' = IF point.at = "renamed" THEN 0 ELSE nflushed
  /\ lock' = [p \in Paths |-> NoInst]
  /\ alive' = {}
  /\ keydir' = [keydir EXCEPT ![i] = BTreeNew]
  /\ pre' = [NoPre EXCEPT
               !.kind = "compact crash",
               !.hist = hist,
               !.engine = [bytes |-> LiveBytes, keydir |-> keydir[i]]]
  /\ last' = Call("crash", NoInst, <<>>, <<>>, TRUE, point.at)
  /\ UNCHANGED <<data, m, sized, failed, path>>

\* Whether a compaction is between two of its steps, and the steps.
CompactSteps == {"compact locked", "compact written", "compact renamed"}
Compacting == pre.kind \in CompactSteps

\* std::fs::rename of the file at from over the file at to: the file and the
\* lock on it (a lock is held on the open file, not on its name) are then
\* at to, and nothing is at from.
rename_files(files, from, to) ==
  [p \in (DOMAIN files) \ {from} |-> IF p = to THEN files[from] ELSE files[p]]

rename_locks(locks, from, to) ==
  [p \in DOMAIN locks |->
     IF p = to THEN locks[from] ELSE IF p = from THEN NoInst ELSE locks[p]]

\* Faulty variant of CompactLock: the new log is opened without a lock.
CompactLock_unlocked(i) ==
  /\ i \in alive
  /\ ~Compacting
  /\ try_lock_exclusive(set_extension(LivePath, "new"))
  /\ disk' = OpenOrCreate(set_extension(LivePath, "new"))
  /\ pre' = [NoPre EXCEPT
               !.kind = "compact locked",
               !.engine = [bytes |-> LiveBytes, keydir |-> keydir[i]]]
  /\ last' = Call("compact", i, <<>>, <<>>, FALSE, "running")
  /\ UNCHANGED <<lock, alive, keydir, hist, nflushed, data, m, sized, failed,
                 path>>

\* LogCask::compact step by step.  First write_log's Log::new(tmp_path): the
\* file at the new path is opened or created and locked.
CompactLock(i) ==
  /\ i \in alive
  /\ ~Compacting
  /\ try_lock_exclusive(set_extension(LivePath, "new"))
  /\ disk' = OpenOrCreate(set_extension(LivePath, "new"))
  /\ lock' = [lock EXCEPT ![set_extension(LivePath, "new")] = i]
  /\ pre' = [NoPre EXCEPT
               !.kind = "compact locked",
               !.engine = [bytes |-> LiveBytes, keydir |-> keydir[i]]]
  /\ last' = Call("compact", i, <<>>, <<>>, FALSE, "running")
  /\ UNCHANGED <<alive, keydir, hist, nflushed, data, m, sized, failed, path>>

\* The rest of write_log: set_len(0) and the entries of the live keys.
CompactWrite(i) ==
  /\ i \in alive
  /\ pre.kind = "compact locked"
  /\ LET w == write_log(LiveBytes, keydir[i], NewLogBytes)
     IN /\ w.ok
        /\ disk' = [disk EXCEPT ![set_extension(LivePath, "new")] =
                                  File(w.bytes, 0)]
  /\ pre' = [pre EXCEPT !.kind = "compact written"]
  /\ UNCHANGED <<lock, alive, keydir, hist, nflushed, last, data, m, sized,
                 failed, path>>

\* The rename of the new log over the log's path.
CompactRename(i) ==
  /\ i \in alive
  /\ pre.kind = "compact written"
  /\ disk' = rename_files(disk, set_extension(LivePath, "new"), LivePath)
  /\ lock' = rename_locks(lock, set_extension(LivePath, "new"), LivePath)
  /\ hist' = CompactedHist(Replay(hist), BTreeIter(Replay(hist)))
  /\ nflushed' = 0
  /\ pre' = [pre EXCEPT !.kind = "compact renamed"]
  /\ UNCHANGED <<alive, keydir, last, data, m, sized, failed, path>>

\* self.log = new_log; self.keydir = new_keydir: the old log is dropped, its
\* file (which has no name any more) closed, and Ok returned.
CompactInstall(i) ==
  /\ i \in alive
  /\ pre.kind = "compact renamed"
  /\ keydir' = [keydir EXCEPT ![i] =
                  write_log(pre.engine.bytes, pre.engine.keydir, <<>>).keydir]
  /\ pre' = [pre EXCEPT !.kind = "compact"]
  /\ last' = Call("compact", i, <<>>, <<>>, TRUE, <<>>)
  /\ UNCHANGED <<disk, lock, alive, hist, nflushed, data, m, sized, failed,
                 path>>

(***************************************************************************)
(* The environment: a crash loses what was written after the last          *)
(* sync_all, as a suffix of the file; a cut is the set_len of the          *)
(* recovery test on a closed file.                                         *)
(***************************************************************************)
CutTo(t) ==
  /\ disk' = [disk EXCEPT ![LivePath] = File(Take(@.bytes, t), Min(@.synced, t))]
  /\ hist' = Take(hist, Surviving(hist, t))
  /\ nflushed' = Min(nflushed, Surviving(hist, t))
  /\ lock' = [p \in Paths |-> NoInst]
  /\ alive' = {}
  /\ keydir' = [i \in Inst |-> BTreeNew]
  /\ UNCHANGED <<data, m, sized, failed, path>>

\* The process holding the engine dies without running Drop.
Crash(t) ==
  /\ alive # {}
  /\ t \in disk[LivePath].synced..Len(LiveBytes)
  /\ CutTo(t)
  /\ last' = Call("crash", NoInst, <<>>, <<>>, TRUE, <<>>)

Truncate(t) ==
  /\ alive = {}
  /\ t \in 0..Len(LiveBytes)
  /\ CutTo(t)
  /\ last' = Call("cut", NoInst, <<>>, <<>>, TRUE, <<>>)

(***************************************************************************)
(* Steps and specifications.                                               *)
(***************************************************************************)
OpenStep == \E i \in Inst : LogCask_new(i)

SetStep == \E i \in Inst, key \in Keys, value \in Vals :
  Set(i, key, value) /\ UNCHANGED <<data, m, sized, failed, path>>

DeleteStep == \E i \in Inst, key \in Keys :
  Delete(i, key) /\ UNCHANGED <<data, m, sized, failed, path>>

GetStep == \E i \in Inst, key \in Keys : Get(i, key)

ScanStep == \E i \in Inst, r \in FullRange : Scan(i, r[1], r[2])

FlushStep == \E i \in Inst : Flush(i)

CompactStep == \E i \in Inst : Compact(i)

DropStep == \E i \in Inst : Drop(i)

CrashStep ==
  /\ LivePath \in DOMAIN disk
  /\ \E t \in 0..Len(LiveBytes) : Crash(t)
  /\ pre' = [NoPre EXCEPT !.kind = "crash"]

\* A crash, with the history before it kept for comparison.
CrashObserved ==
  /\ LivePath \in DOMAIN disk
  /\ \E t \in 0..Len(LiveBytes) : Crash(t)
  /\ pre' = [NoPre EXCEPT !.kind = "crash", !.hist = hist, !.n = nflushed]

\* A cut, with the history before it and the length kept for comparison.
TruncateStep ==
  /\ LivePath \in DOMAIN disk
  /\ \E t \in 0..Len(LiveBytes) :
       /\ Truncate(t)
       /\ pre' = [NoPre EXCEPT !.kind = "cut", !.hist = hist, !.t = t]

\* The engine over its whole life.
Next ==
  \/ OpenStep
  \/ SetStep
  \/ DeleteStep
  \/ GetStep
  \/ ScanStep
  \/ FlushStep
  \/ CompactStep
  \/ DropStep
  \/ CrashStep

Spec == Init /\ [][Next]_vars

\* The random_ops test of test_engine!: the same sets and deletes go to a
\* LogCask, to a Memory and to the reference BTreeMap.
RandomSet == \E i \in Inst, key \in Keys, value \in Vals :
  /\ Set(i, key, value)
  /\ data' = Memory_set(data, key, value)
  /\ m' = BTreeInsert(m, key, value)
  /\ UNCHANGED <<sized, failed, path>>

RandomDelete == \E i \in Inst, key \in Keys :
  /\ Delete(i, key)
  /\ data' = Memory_delete(data, key)
  /\ m' = BTreeRemove(m, key)
  /\ UNCHANGED <<sized, failed, path>>

RandomGet == \E i \in Inst, key \in Keys : Get(i, key)

RandomScan == \E i \in Inst, r \in ScanRanges : Scan(i, r[1], r[2])

\* Engine::status of the LogCask; Memory::status is Memory_status(data).
RandomStatus == \E i \in Inst :
  /\ i \in alive
  /\ last' = Call("status", i, <<>>, <<>>, TRUE,
                  LogCask_status(LiveBytes, keydir[i]))
  /\ pre' = NoPre
  /\ UNCHANGED <<disk, lock, alive, keydir, hist, nflushed, data, m, sized,
                 failed, path>>

NextRandomOps ==
  \/ OpenStep
  \/ RandomSet
  \/ RandomDelete
  \/ RandomGet
  \/ RandomScan
  \/ RandomStatus

SpecRandomOps == Init /\ [][NextRandomOps]_vars

\* Writes, flushes, drops and crashes, without compaction.
NextDurability ==
  \/ OpenStep
  \/ SetStep
  \/ DeleteStep
  \/ FlushStep
  \/ DropStep
  \/ CrashObserved

SpecDurability == Init /\ [][NextDurability]_vars

\* The recovery test: a log is written, closed, cut at some byte and opened.
NextRecovery ==
  \/ OpenStep
  \/ SetStep
  \/ DeleteStep
  \/ DropStep
  \/ TruncateStep

SpecRecovery == Init /\ [][NextRecovery]_vars

\* The writes of tests::setup_log, in order: keys "b", "e", "c", "", "a",
\* "f" and "d".
setup_log ==
  << SetOp(<<98>>, <<1>>), SetOp(<<98>>, <<2>>),
     SetOp(<<101>>, <<5>>), DeleteOp(<<101>>),
     SetOp(<<99>>, <<0>>), DeleteOp(<<99>>), SetOp(<<99>>, <<3>>),
     SetOp(<<>>, <<>>),
     SetOp(<<97>>, <<1>>),
     DeleteOp(<<102>>),
     DeleteOp(<<100>>), SetOp(<<100>>, <<4>>) >>

\* The next write of setup_log on a log that holds the ones before it.
SetupWrite == \E i \in Inst :
  /\ i \in alive
  /\ Len(hist) < Len(setup_log)
  /\ hist = Take(setup_log, Len(hist))
  /\ LET w == setup_log[Len(hist) + 1]
         s == IF w.op = "set"
              THEN LogCask_set(LiveBytes, keydir[i], w.key, w.val)
              ELSE LogCask_delete(LiveBytes, keydir[i], w.key)
     IN /\ disk' = [disk EXCEPT ![LivePath].bytes = s.bytes]
        /\ keydir' = [keydir EXCEPT ![i] = s.keydir]
        /\ hist' = Append(hist, w)
        /\ last' = Call(w.op, i, w.key, w.val, TRUE,
                        IF w.op = "set" THEN <<>> ELSE LogCask_delete_returns)
  /\ pre' = NoPre
  /\ UNCHANGED <<lock, alive, nflushed, data, m, sized, failed, path>>

StatusStep == \E i \in Inst :
  /\ i \in alive
  /\ last' = Call("status", i, <<>>, <<>>, TRUE, LogCask_status(LiveBytes, keydir[i]))
  /\ UNCHANGED <<disk, lock, alive, keydir, hist, nflushed, pre, data, m,
                 sized, failed, path>>

\* A compaction, with the scan, the status and the history before it kept
\* for comparison when it succeeds.
CompactObserved == \E i \in Inst :
  /\ LogCask_compact(i)
  /\ pre' = IF last'.ok
            THEN [NoPre EXCEPT
                    !.kind = "compact",
                    !.scan = LogCask_scan(LiveBytes, keydir[i], Unbounded, Unbounded),
                    !.hist = hist,
                    !.status = LogCask_status(LiveBytes, keydir[i])]
            ELSE NoPre

\* Writes (among them the sequence of setup_log), compactions and status
\* calls.
NextCompaction ==
  \/ OpenStep
  \/ SetStep
  \/ DeleteStep
  \/ SetupWrite
  \/ StatusStep
  \/ CompactObserved
  \/ DropStep

SpecCompaction == Init /\ [][NextCompaction]_vars

\* A compaction that an I/O error ends, with the log file and the keydir
\* before it kept for comparison.
CompactFailStep == \E i \in Inst :
  \E fault \in CompactFaults(LiveBytes, keydir[i]) :
    /\ LogCask_compact_fails(i, fault)
    /\ pre' = [NoPre EXCEPT
                 !.kind = "compact failed",
                 !.engine = [bytes |-> LiveBytes, keydir |-> keydir[i]]]

\* Writes and compactions, some of them failing.
NextCompactFail ==
  \/ OpenStep
  \/ SetStep
  \/ DeleteStep
  \/ CompactStep
  \/ CompactFailStep

SpecCompactFail == Init /\ [][NextCompactFail]_vars

CompactCrashStep == \E i \in Inst :
  \E point \in CompactPoints(LiveBytes, keydir[i]) : CompactCrash(i, point)

\* Writes and compactions, the process stopping inside some of them and the
\* log being opened again.
NextCompactCrash ==
  \/ OpenStep
  \/ SetStep
  \/ DeleteStep
  \/ CompactStep
  \/ CompactCrashStep

SpecCompactCrash == Init /\ [][NextCompactCrash]_vars

\* A compaction, with the log, the KeyDir and the history before it and the
\* length of the file left at the new path kept for comparison.
CompactOverStep == \E i \in Inst :
  /\ LogCask_compact(i)
  /\ pre' = [NoPre EXCEPT
               !.kind = "compact",
               !.hist = hist,
               !.t = Len(NewLogBytes),
               !.engine = [bytes |-> LiveBytes, keydir |-> keydir[i]]]

\* Writes, compactions that an I/O error ends and that leave a file at the
\* new path, and compactions after them.
NextLeftover ==
  \/ OpenStep
  \/ SetStep
  \/ DeleteStep
  \/ CompactFailStep
  \/ CompactOverStep

SpecLeftover == Init /\ [][NextLeftover]_vars

\* How much of an entry has reached the file when the error comes: nothing,
\* the key length, the header, or the header and one byte more.
WrittenBefore == {0, 4, 8, 9}

SetFailStep == \E i \in Inst, key \in Keys, value \in Vals :
  \E written \in WrittenBefore : SetFails(i, key, value, written)

DeleteFailStep == \E i \in Inst, key \in Keys :
  \E written \in WrittenBefore : DeleteFails(i, key, written)

\* The one handle of a process that opens the log once.
OpenOnce == LogCask_new("first")

\* Sets and deletes, some of them ended by an I/O error of the append.
NextWriteFail ==
  \/ OpenOnce
  \/ SetStep
  \/ DeleteStep
  \/ SetFailStep
  \/ DeleteFailStep

SpecWriteFail == Init /\ [][NextWriteFail]_vars

DropFailStep == \E i \in Inst : DropFlushFails(i)

\* Opens, writes and drops, the flush of some drops failing.
NextDropFail ==
  \/ OpenStep
  \/ SetStep
  \/ DeleteStep
  \/ DropStep
  \/ DropFailStep

SpecDropFail == Init /\ [][NextDropFail]_vars

\* The steps of a compaction, one at a time, with the opens of other
\* handles between them; writes when no compaction is under way.
NextCompactLock ==
  \/ OpenStep
  \/ ~Compacting /\ SetStep
  \/ ~Compacting /\ DeleteStep
  \/ \E i \in Inst : CompactLock(i)
  \/ \E i \in Inst : CompactWrite(i)
  \/ \E i \in Inst : CompactRename(i)
  \/ \E i \in Inst : CompactInstall(i)

SpecCompactLock == Init /\ [][NextCompactLock]_vars

\* The thresholds new_compact is called with, as fractions n / d: -1, 0,
\* 1/2, 2/3, 1 and 2.
Thresholds ==
  {[n |-> -1, d |-> 1], [n |-> 0, d |-> 1], [n |-> 1, d |-> 2],
   [n |-> 2, d |-> 3], [n |-> 1, d |-> 1], [n |-> 2, d |-> 1]}

\* Faulty variant of the test of new_compact: the ratio has to exceed the
\* threshold.
should_compact_strict(status, threshold) ==
  /\ status.garbage_disk_size > 0
  /\ status.garbage_disk_size * threshold.d > threshold.n * status.total_disk_size

\* The test of new_compact: garbage_disk_size > 0 && garbage_ratio >=
\* garbage_ratio_threshold, the ratio being garbage_disk_size /
\* total_disk_size.  With garbage > 0 the total is positive, and the
\* comparison of the quotient with n / d is the comparison of the products.
should_compact(status, threshold) ==
  /\ status.garbage_disk_size > 0
  /\ status.garbage_disk_size * threshold.d >= threshold.n * status.total_disk_size

\* LogCask::new_compact(path, threshold): LogCask::new, status, and compact
\* when the test holds.  When compact fails the error is returned and the
\* engine just opened is dropped (flushed, its lock released).
LogCask_new_compact(i, threshold) ==
  /\ i \notin alive
  /\ LET opened == OpenOrCreate(LivePath)
         r == build_keydir(opened[LivePath].bytes)
         bytes == Take(opened[LivePath].bytes, r.len)
         recovered == [opened EXCEPT ![LivePath] =
                         File(bytes, Min(@.synced, r.len))]
         status == LogCask_status(bytes, r.keydir)
         tmp_path == set_extension(LivePath, "new")
         w == write_log(bytes, r.keydir, NewLogBytes)
         with_tmp == [p \in (DOMAIN recovered) \cup {tmp_path} |->
                        IF p = tmp_path THEN File(w.bytes, 0) ELSE recovered[p]]
     IN IF ~try_lock_exclusive(LivePath)
        THEN /\ disk' = opened
             /\ last' = Call("new_compact", i, threshold, <<>>, FALSE, "lock")
             /\ UNCHANGED <<lock, alive, keydir, hist, nflushed>>
        ELSE IF ~should_compact(status, threshold)
        THEN /\ disk' = recovered
             /\ lock' = [lock EXCEPT ![LivePath] = i]
             /\ alive' = alive \cup {i}
             /\ keydir' = [keydir EXCEPT ![i] = r.keydir]
             /\ last' = Call("new_compact", i, threshold, <<>>, TRUE, "opened")
             /\ UNCHANGED <<hist, nflushed>>
        ELSE IF try_lock_exclusive(tmp_path) /\ w.ok
        THEN /\ disk' = [p \in (DOMAIN recovered) \ {tmp_path} |->
                           IF p = LivePath THEN File(w.bytes, 0) ELSE recovered[p]]
             /\ lock' = [lock EXCEPT ![LivePath] = i]
             /\ alive' = alive \cup {i}
             /\ keydir' = [keydir EXCEPT ![i] = w.keydir]
             /\ hist' = CompactedHist(Replay(hist), BTreeIter(Replay(hist)))
             /\ nflushed' = 0
             /\ last' = Call("new_compact", i, threshold, <<>>, TRUE, "compacted")
        ELSE /\ disk' = IF try_lock_exclusive(tmp_path)
                        THEN [with_tmp EXCEPT ![LivePath] = sync_all(@)]
                        ELSE [recovered EXCEPT ![LivePath] = sync_all(@)]
             /\ nflushed' = Len(hist)
             /\ last' = Call("new_compact", i, threshold, <<>>, FALSE, "compact")
             /\ UNCHANGED <<lock, alive, keydir, hist>>
  /\ UNCHANGED <<pre, data, m, sized, failed, path>>

NewCompactStep == \E i \in Inst, threshold \in Thresholds :
  LogCask_new_compact(i, threshold)

\* Writes, closes and opens with new_compact.
NextNewCompact ==
  \/ NewCompactStep
  \/ SetStep
  \/ DeleteStep
  \/ DropStep

SpecNewCompact == Init /\ [][NextNewCompact]_vars

\* What a program other than the engine appends to the file in one go: the
\* length fields 0, 1, -1, -2 and 2^31, and the byte "a".
Pieces ==
  {<<0, 0, 0, 0>>, <<0, 0, 0, 1>>, <<255, 255, 255, 255>>,
   <<255, 255, 255, 254>>, <<128, 0, 0, 0>>, <<97>>}

\* While no engine has the file open, another program appends to it (or
\* creates it): the file comes to hold bytes the engine did not write.
ForeignAppend(piece) ==
  /\ alive = {}
  /\ LET opened == OpenOrCreate(LivePath)
         bytes == opened[LivePath].bytes \o piece
     IN /\ Len(bytes) <= MaxForeignLen
        /\ disk' = [opened EXCEPT ![LivePath] = File(bytes, Len(bytes))]
        /\ pre' = [NoPre EXCEPT !.kind = "foreign",
                     !.engine = [bytes |-> bytes, keydir |-> BTreeNew]]
  /\ last' = Call("foreign", NoInst, <<>>, <<>>, TRUE, <<>>)
  /\ UNCHANGED <<lock, alive, keydir, hist, nflushed, data, m, sized, failed,
                 path>>

ForeignStep == \E piece \in Pieces : ForeignAppend(piece)

\* Opens and closes of a file of any content.
NextForeign ==
  \/ ForeignStep
  \/ OpenStep
  \/ DropStep

SpecForeign == Init /\ [][NextForeign]_vars

\* Every Engine operation of an open LogCask, without closes, crashes and
\* compactions.
NextEngine ==
  \/ OpenStep
  \/ SetStep
  \/ DeleteStep
  \/ GetStep
  \/ ScanStep
  \/ StatusStep
  \/ FlushStep

SpecEngine == Init /\ [][NextEngine]_vars

\* The lengths of the keys and values of the sets told by lengths: 0, 1,
\* 16 MB, and around the documented limit 2^31 - 8, 2^31 - 7 and 2^31 - 1.
\* A key of a length is the byte "x" repeated.
Sizes == {0, 1, 16777216, 2147483640, 2147483641, 2147483647}

\* set(key, value) then get(key) on the LogCask told by lengths.  A panic
\* ends the process.
SizedSet(key_len, value_len) ==
  LET checks == sized.overflow_checks
      w == write_entry_sized(sized.file_len, key_len, value_len, checks)
      value_pos == LogCask_set_value_pos(w.pos, w.len, value_len, checks)
      written == BTreeInsert(sized.written, key_len,
                             <<w.value_at, value_len>>)
      kdir == BTreeInsert(sized.keydir, key_len, <<value_pos.w, value_len>>)
  IN /\ sized.set # "panic"
     /\ sized.entries < MaxSizedEntries
     /\ sized' =
          IF w.type = "panic"
          THEN [sized EXCEPT !.set = "panic", !.key_len = key_len,
                             !.entry = w]
          ELSE IF value_pos.type = "panic"
          THEN [sized EXCEPT !.set = "panic", !.key_len = key_len,
                             !.entry = w, !.file_len = w.file_len,
                             !.written = written,
                             !.entries = sized.entries + 1]
          ELSE [sized EXCEPT !.set = "Ok", !.key_len = key_len,
                             !.entry = w, !.file_len = w.file_len,
                             !.written = written, !.keydir = kdir,
                             !.entries = sized.entries + 1,
                             !.get = LogCask_get_sized(w.file_len, kdir,
                                                       key_len)]
     /\ UNCHANGED <<disk, lock, alive, keydir, hist, nflushed, pre, last, data,
                    m, failed, path>>

SizedStep == \E key_len \in Sizes, value_len \in Sizes :
  SizedSet(key_len, value_len)

\* A debug or a release build of the engine on an empty log.
InitSized ==
  /\ path = TestPath
  /\ disk = [p \in {} |-> File(<<>>, 0)]
  /\ lock = [p \in Paths |-> NoInst]
  /\ alive = {}
  /\ keydir = [i \in Inst |-> BTreeNew]
  /\ hist = <<>>
  /\ nflushed = 0
  /\ pre = NoPre
  /\ last = Call("init", NoInst, <<>>, <<>>, TRUE, <<>>)
  /\ data = BTreeNew
  /\ m = BTreeNew
  /\ sized \in {SizedNew(overflow_checks) : overflow_checks \in BOOLEAN}
  /\ failed = 0

NextSized == SizedStep

SpecSized == InitSized /\ [][NextSized]_vars

\* Keys of the scans: "a", "ab" and "b".
ScanKeys == {<<97>>, <<97, 98>>, <<98>>}

\* Every bound over them: unbounded, inclusive, exclusive.
ScanBounds ==
  {Unbounded} \cup {Included(k) : k \in ScanKeys}
              \cup {Excluded(k) : k \in ScanKeys}

ScanSet == \E i \in Inst, key \in ScanKeys, value \in Vals :
  Set(i, key, value) /\ UNCHANGED <<data, m, sized, failed, path>>

ScanDelete == \E i \in Inst, key \in ScanKeys :
  Delete(i, key) /\ UNCHANGED <<data, m, sized, failed, path>>

\* scan(lo, hi), collected from the front or (rev) from the back.  scan
\* calls BTreeMap::range at once, which panics on bounds that are out of
\* order; nothing has been changed by then.
ScanCall(i, lo, hi, rev) ==
  /\ i \in alive
  /\ LET r == IF rev THEN LogCask_scan_rev(LiveBytes, keydir[i], lo, hi)
                     ELSE LogCask_scan(LiveBytes, keydir[i], lo, hi)
         op == IF rev THEN "scan rev" ELSE "scan"
     IN last' = IF RangePanics(lo, hi)
                THEN Call(op, i, <<lo, hi>>, <<>>, FALSE, "panic")
                ELSE Call(op, i, <<lo, hi>>, <<>>, r.ok, r.val)
  /\ pre' = NoPre
  /\ UNCHANGED <<disk, lock, alive, keydir, hist, nflushed, data, m, sized,
                 failed, path>>

\* The ranges the scans are called with: "a".."b", the full range, the
\* range above "a" up to and including "b", and "b".."a".
CalledRanges ==
  { <<Included(<<97>>), Excluded(<<98>>)>>,
    <<Unbounded, Unbounded>>,
    <<Excluded(<<97>>), Included(<<98>>)>>,
    <<Included(<<98>>), Excluded(<<97>>)>> }

ScanForward == \E i \in Inst, r \in CalledRanges :
  ScanCall(i, r[1], r[2], FALSE)

ScanBackward == \E i \in Inst, r \in CalledRanges :
  ScanCall(i, r[1], r[2], TRUE)

\* Writes and scans from the front and from the back.
NextScan ==
  \/ OpenStep
  \/ ScanSet
  \/ ScanDelete
  \/ ScanForward
  \/ ScanBackward

SpecScan == Init /\ [][NextScan]_vars

\* Keys and prefixes of the prefix scans: "a" and 0xFF bytes.
PrefixKeys == {<<97>>, <<97, 255>>, <<255>>, <<255, 255>>}

Prefixes == PrefixKeys \cup {<<>>, <<255, 255, 255>>}

\* As in the scan_prefix test, the value of a key is made of the key's bytes.
PrefixSet == \E i \in Inst, key \in PrefixKeys :
  Set(i, key, key) /\ UNCHANGED <<data, m, sized, failed, path>>

PrefixDelete == \E i \in Inst, key \in PrefixKeys :
  Delete(i, key) /\ UNCHANGED <<data, m, sized, failed, path>>

\* Engine::scan_prefix(prefix), collected.
ScanPrefix(i, prefix) ==
  /\ i \in alive
  /\ LET r == LogCask_scan_prefix(LiveBytes, keydir[i], prefix)
     IN last' = Call("scan_prefix", i, prefix, <<>>, r.ok, r.val)
  /\ pre' = NoPre
  /\ UNCHANGED <<disk, lock, alive, keydir, hist, nflushed, data, m, sized,
                 failed, path>>

ScanPrefixStep == \E i \in Inst, prefix \in Prefixes : ScanPrefix(i, prefix)

\* Writes and prefix scans.
NextScanPrefix ==
  \/ OpenStep
  \/ PrefixSet
  \/ PrefixDelete
  \/ ScanPrefixStep

SpecScanPrefix == Init /\ [][NextScanPrefix]_vars

(***************************************************************************)
(* Observations used by the properties.                                    *)
(***************************************************************************)
\* What get, scan and scan_prefix of handle i return in the current state.
GetOf(i, key) == LogCask_get(LiveBytes, keydir[i], key)
ScanOf(i, lo, hi) == LogCask_scan(LiveBytes, keydir[i], lo, hi)
ScanPrefixOf(i, prefix) == LogCask_scan_prefix(LiveBytes, keydir[i], prefix)

\* The keys a collected scan yields.
KeysIn(r) == {r.val[n][1] : n \in 1..Len(r.val)}

\* BTreeMap::range(..).map(clone).collect() of the reference map.
RefRange(map, lo, hi) ==
  LET keys == BTreeRange(map, lo, hi)
  IN [n \in 1..Len(keys) |-> <<keys[n], map[keys[n]]>>]

AllBounds == {Unbounded} \cup {Included(k) : k \in Keys} \cup {Excluded(k) : k \in Keys}

\* The last write of the history to key, as Some(write) or None.
LastWrite(h, key) ==
  LET S == {n \in 1..Len(h) : h[n].key = key}
  IN IF S = {} THEN None ELSE Some(h[CHOOSE n \in S : \A x \in S : x <= n])

\* The place in the history of the last write to key, or 0.
LastWriteAt(h, key) ==
  LET S == {n \in 1..Len(h) : h[n].key = key}
  IN IF S = {} THEN 0 ELSE CHOOSE n \in S : \A x \in S : x <= n

\* The whole contents of a map, in key order, as a scan collects them.
Contents(map) == Ok(RefRange(map, Unbounded, Unbounded))

\* Handle i yields key neither from get nor from any scan or prefix scan.
Absent(i, key) ==
  /\ GetOf(i, key) = Ok(None)
  /\ \A lo \in AllBounds, hi \in AllBounds :
       ~RangePanics(lo, hi) =>
         LET r == ScanOf(i, lo, hi) IN r.ok /\ key \notin KeysIn(r)
  /\ \A prefix \in Keys :
       LET r == ScanPrefixOf(i, prefix) IN r.ok /\ key \notin KeysIn(r)

(***************************************************************************)
(* Properties.                                                             *)
(***************************************************************************)
\* C1: once set(k, v) has returned successfully, a get(k) on the same handle
\* returns Some(v), whatever the log held for k before.
C1_GetAfterSet ==
  (last.op = "set" /\ last.ok) => GetOf(last.inst, last.key) = Ok(Some(last.val))

\* A set of a key whose previous write was its delete.
C1_Witness ==
  /\ last.op = "set" /\ last.ok
  /\ Len(hist) >= 2
  /\ hist[Len(hist) - 1] = DeleteOp(last.key)

\* C2: in the random_ops run every get and every scan(from..to) of the
\* LogCask and of the Memory returns what the reference BTreeMap returns,
\* and so does the full scan in every state.
C2_MatchesBTreeMap ==
  /\ last.op = "get" =>
       /\ last.ok /\ last.res = BTreeGet(m, last.key)
       /\ Memory_get(data, last.key) = Ok(BTreeGet(m, last.key))
  /\ last.op = "scan" =>
       /\ last.ok /\ last.res = RefRange(m, last.key[1], last.key[2])
       /\ Memory_scan(data, last.key[1], last.key[2])
            = Ok(RefRange(m, last.key[1], last.key[2]))
  /\ \A i \in alive :
       /\ ScanOf(i, Unbounded, Unbounded) = Ok(RefRange(m, Unbounded, Unbounded))
       /\ Memory_scan(data, Unbounded, Unbounded)
            = Ok(RefRange(m, Unbounded, Unbounded))

\* A scan from..to that yields one of two live keys, after an overwrite.
C2_Witness ==
  /\ last.op = "scan" /\ last.key[2].kind = "Excluded"
  /\ Len(last.res) = 1
  /\ BTreeLen(m) = 2
  /\ Len(hist) = 3

\* C3: a key whose last write in the log is a delete (or that the log holds
\* no write of, as after a compaction) is absent from get and from every
\* scan and prefix scan of every open handle; only a set(k, _) ends that.
C3_DeletedStaysAbsent ==
  \A i \in alive, k \in Keys :
    (LastWrite(hist, k) = None \/ LastWrite(hist, k) = Some(DeleteOp(k)))
    => Absent(i, k)

\* A key was set, then deleted, then another key was set.
C3_Witness ==
  /\ alive # {}
  /\ Len(hist) = 3
  /\ hist[1].op = "set"
  /\ hist[2] = DeleteOp(hist[1].key)
  /\ hist[3].op = "set" /\ hist[3].key # hist[1].key
  /\ last.op = "set"

\* C4: a set or delete of a key leaves what get returns for every other key
\* of that handle unchanged.
C4_OtherKeysUnchanged ==
  [][\A i \in alive \cap alive', k \in Keys :
       (last'.op \in {"set", "delete"} /\ last'.inst = i /\ last'.key # k)
       => GetOf(i, k)' = GetOf(i, k)]_vars

\* A key holding a value, and the delete of another key after it.
C4_Witness ==
  /\ last.op = "delete"
  /\ Len(hist) >= 2
  /\ hist[Len(hist) - 1].op = "set"
  /\ hist[Len(hist) - 1].key # last.key
  /\ GetOf(last.inst, hist[Len(hist) - 1].key) = Ok(Some(hist[Len(hist) - 1].val))

\* C5: every keydir entry k -> (offset, length) of an open handle lies
\* within the file, is preceded by the header and key of a value entry for
\* k with that length, and get(k) returns the bytes at [offset, offset+length).
C5_KeydirPointsAtEntries ==
  \A i \in alive : \A k \in DOMAIN keydir[i] :
    LET offset == keydir[i][k][1]
        length == keydir[i][k][2]
    IN /\ offset + length <= Len(LiveBytes)
       /\ offset - 8 - Len(k) >= 0
       /\ Slice(LiveBytes, offset - 8 - Len(k), 8 + Len(k))
            = u32_to_be_bytes(Len(k)) \o i32_to_be_bytes(length) \o k
       /\ length >= 0
       /\ GetOf(i, k) = Ok(Some(Slice(LiveBytes, offset, length)))

\* Two live keys in a log that also holds a superseded entry.
C5_Witness ==
  \E i \in alive :
    /\ BTreeLen(keydir[i]) = 2
    /\ Len(hist) = 3
    /\ \E k \in DOMAIN keydir[i] : keydir[i][k][2] > 0

\* C6: the keydir of every open handle is the keydir build_keydir builds
\* from the current log file: a key maps to the value region of its last
\* entry in the log when that entry is a value, and is absent when its last
\* entry is a tombstone or the log holds no entry for it.
C6_KeydirIsRecoveryScan ==
  \A i \in alive :
    /\ keydir[i] = build_keydir(LiveBytes).keydir
    /\ build_keydir(LiveBytes).len = Len(LiveBytes)
    /\ Len(LiveBytes) = EntryEnd(hist, Len(hist))
    /\ \A k \in Keys :
         LET n == LastWriteAt(hist, k)
         IN IF n # 0 /\ hist[n].op = "set"
            THEN /\ k \in DOMAIN keydir[i]
                 /\ keydir[i][k] = <<EntryEnd(hist, n) - Len(hist[n].val),
                                     Len(hist[n].val)>>
            ELSE k \notin DOMAIN keydir[i]
    /\ DOMAIN keydir[i] \subseteq Keys

\* A log of three entries: a key set and then deleted, and a live key.
C6_Witness ==
  \E i \in alive :
    /\ Len(hist) = 3
    /\ BTreeLen(keydir[i]) = 1
    /\ \E k \in Keys :
         /\ LastWrite(hist, k) = Some(DeleteOp(k))
         /\ \E n \in 1..2 : hist[n].op = "set" /\ hist[n].key = k

\* C7: an engine opened right after a drop, with no call in between, scans
\* exactly what the dropped engine scanned: same keys, values and order.
C7_ReopenSameScan ==
  (pre.kind = "drop" /\ last.op = "open")
  => /\ alive # {}
     /\ pre.scan.ok
     /\ \A i \in alive : ScanOf(i, Unbounded, Unbounded) = pre.scan

\* A reopen of a log of three entries holding a tombstone and a live key.
C7_Witness ==
  /\ pre.kind = "drop" /\ last.op = "open" /\ last.ok
  /\ Len(hist) = 3
  /\ Len(pre.scan.val) = 1
  /\ \E n \in 1..3 : hist[n].op = "delete"

\* C8: opening a log cut at any length t succeeds, leaves the file as long
\* as the entries lying wholly within the first t bytes, and yields the
\* state those entries give when replayed in order.
C8_RecoversAlignedPrefix ==
  (pre.kind = "cut" /\ last.op = "open")
  => LET n == Surviving(pre.hist, pre.t)
     IN /\ alive # {}
        /\ Len(LiveBytes) = EntryEnd(pre.hist, n)
        /\ \A i \in alive :
             /\ ScanOf(i, Unbounded, Unbounded)
                  = Contents(Replay(Take(pre.hist, n)))
             /\ \A k \in Keys :
                  GetOf(i, k) = Ok(BTreeGet(Replay(Take(pre.hist, n)), k))

\* A log cut inside the value of its third entry, then opened.
C8_Witness ==
  /\ pre.kind = "cut" /\ last.op = "open" /\ last.ok
  /\ Len(pre.hist) = 3
  /\ Surviving(pre.hist, pre.t) = 2
  /\ pre.hist[3].op = "set"
  /\ pre.t = EntryEnd(pre.hist, 3) - 1
  /\ Len(pre.hist[3].val) = 1
  /\ Replay(pre.hist) # Replay(Take(pre.hist, 2))

\* C9: the open after a crash yields the state of the first n writes of the
\* log for some n that is at least the number of writes the last successful
\* flush covered: no write before the flush is lost, and writes after it
\* are lost only as a suffix of the write order.
C9_FlushedSurvivesCrash ==
  (pre.kind = "crash" /\ last.op = "open")
  => /\ alive # {}
     /\ \E n \in pre.n..Len(pre.hist) :
          /\ hist = Take(pre.hist, n)
          /\ \A i \in alive :
               ScanOf(i, Unbounded, Unbounded)
                 = Contents(Replay(Take(pre.hist, n)))

\* A flush after the first write, two more writes, and a crash that loses
\* some but not all of what followed the flush.
C9_Witness ==
  /\ pre.kind = "crash" /\ last.op = "open" /\ last.ok
  /\ pre.n = 1
  /\ Len(pre.hist) = 3
  /\ Len(hist) = 2
  /\ Replay(hist) # Replay(pre.hist)

\* C10: at most one handle holds a path open at a time; an open while
\* another handle is alive fails and changes nothing about who is alive;
\* an open fails only then, and the first open after a drop succeeds.
C10_LockIsExclusive ==
  /\ Cardinality(alive) <= 1
  /\ \A i \in alive : lock[LivePath] = i
  /\ (alive = {}) => lock[LivePath] = NoInst
  /\ (last.op = "open" /\ ~last.ok) => (alive # {} /\ last.inst \notin alive)
  /\ (last.op = "open" /\ last.ok) => alive = {last.inst}
  /\ (pre.kind = "drop" /\ last.op = "open") => alive # {}

\* An open refused while the other handle holds the log it has written to.
C10_Witness ==
  /\ last.op = "open" /\ ~last.ok
  /\ alive # {}
  /\ Len(hist) >= 1

\* What status of handle i returns in the current state.
StatusOf(i) == LogCask_status(LiveBytes, keydir[i])

\* C11: after a successful compact, status (as the state gives it, and as the
\* next status call returns it) has total_disk_size = live_disk_size and
\* garbage_disk_size = 0.
C11_CompactLeavesNoGarbage ==
  /\ (last.op = "compact" /\ last.ok) =>
       /\ StatusOf(last.inst).total_disk_size = StatusOf(last.inst).live_disk_size
       /\ StatusOf(last.inst).garbage_disk_size = 0
  /\ (pre.kind = "compact" /\ last.op = "status") =>
       /\ last.res.total_disk_size = last.res.live_disk_size
       /\ last.res.garbage_disk_size = 0

\* A status call after the compaction of a log that held garbage and two
\* live keys.
C11_Witness ==
  /\ pre.kind = "compact" /\ last.op = "status"
  /\ pre.status.garbage_disk_size > 0
  /\ last.res.keys = 2
  /\ last.res.total_disk_size < pre.status.total_disk_size

\* C12: a successful compact leaves the live set as it was: scan(..) of the
\* handle equals the scan before the compaction, and status reports the same
\* keys, size and live_disk_size as before it.
C12_CompactKeepsLiveSet ==
  pre.kind = "compact" =>
    /\ pre.scan.ok
    /\ \A i \in alive :
         /\ ScanOf(i, Unbounded, Unbounded) = pre.scan
         /\ StatusOf(i).keys = pre.status.keys
         /\ StatusOf(i).size = pre.status.size
         /\ StatusOf(i).live_disk_size = pre.status.live_disk_size
    /\ last.op = "status" =>
         /\ last.res.keys = pre.status.keys
         /\ last.res.size = pre.status.size
         /\ last.res.live_disk_size = pre.status.live_disk_size

\* The compaction of a log of three entries with two live keys, one of them
\* holding the empty value.
C12_Witness ==
  /\ pre.kind = "compact" /\ last.op = "compact" /\ last.ok
  /\ alive # {}
  /\ Len(pre.hist) = 3
  /\ Len(pre.scan.val) = 2
  /\ \E n \in 1..2 : pre.scan.val[n][2] = <<>>

\* C13: a compact that fails leaves the engine as it was: the handle is
\* open and holds the lock, its keydir and the file at the live path are the
\* ones from before the call, every get and every scan returns what it
\* returned before, and a compact called again can succeed: the lock of the
\* new path is free and every live value can be read.
C13_FailedCompactChangesNothing ==
  (last.op = "compact" /\ ~last.ok) =>
    LET i == last.inst
        before == pre.engine
    IN /\ pre.kind = "compact failed"
       /\ i \in alive
       /\ lock[LivePath] = i
       /\ keydir[i] = before.keydir
       /\ LiveBytes = before.bytes
       /\ \A k \in Keys : GetOf(i, k) = LogCask_get(before.bytes, before.keydir, k)
       /\ \A lo \in AllBounds, hi \in AllBounds :
            ~RangePanics(lo, hi) =>
              ScanOf(i, lo, hi) = LogCask_scan(before.bytes, before.keydir, lo, hi)
       /\ try_lock_exclusive(TmpPath)
       /\ write_log(LiveBytes, keydir[i], NewLogBytes).ok

\* A compact of a log with two live keys and garbage failed after it had
\* written part of the new file.
C13_Witness ==
  /\ last.op = "compact" /\ ~last.ok /\ last.res = "write"
  /\ TmpPath \in DOMAIN disk
  /\ Len(disk[TmpPath].bytes) > 8
  /\ Len(hist) = 3
  /\ BTreeLen(keydir[last.inst]) = 2

\* C14: status of an open handle reports the length of the log file as
\* total_disk_size, which is the sum of 8 + key length + value length over
\* the writes the log holds (a delete counting no value); live_disk_size =
\* size + 8 * keys; and garbage_disk_size = total_disk_size - live_disk_size,
\* never negative.  After the twelve writes of setup_log status is keys 5,
\* size 8, 114 / 48 / 66, and after their compaction 48 / 48 / 0.
C14_StatusSizes ==
  \A i \in alive :
    LET st == StatusOf(i)
    IN /\ st.total_disk_size = Len(LiveBytes)
       /\ st.total_disk_size = EntryEnd(hist, Len(hist))
       /\ st.live_disk_size = st.size + 8 * st.keys
       /\ st.garbage_disk_size = st.total_disk_size - st.live_disk_size
       /\ st.garbage_disk_size >= 0
       /\ hist = setup_log => st = Status("log cask", 5, 8, 114, 48, 66)
       /\ (pre.kind = "compact" /\ pre.hist = setup_log)
            => st = Status("log cask", 5, 8, 48, 48, 0)
       /\ last.op = "status" => last.res = st

\* status is called after the twelve writes of setup_log.
C14_Witness ==
  /\ hist = setup_log
  /\ last.op = "status"
  /\ last.res.garbage_disk_size = 66
  /\ last.res.total_disk_size = 114

\* The sum of len(key) + len(value) over a set of <<key, value>> pairs.
RECURSIVE PairsSize(_)
PairsSize(S) ==
  IF S = {} THEN 0
  ELSE LET p == CHOOSE x \in S : TRUE
       IN Len(p[1]) + Len(p[2]) + PairsSize(S \ {p})

\* The pairs <<key, value>> of the keys for which a get returns a value,
\* from the results of get by key.
Gotten(got) == {<<k, got[k].val[1]>> : k \in {x \in Keys : got[x] # Ok(None)}}

\* C15: after any sets and deletes, status of the LogCask and of the Memory
\* report as keys the number of keys whose get returns a value, and as size
\* the sum of len(key) + len(value) over those keys.
C15_StatusCountsGettableKeys ==
  LET MemoryGet == [k \in Keys |-> Memory_get(data, k)]
  IN /\ Memory_status(data).keys = Cardinality(Gotten(MemoryGet))
     /\ Memory_status(data).size = PairsSize(Gotten(MemoryGet))
     /\ \A i \in alive :
          LET LogCaskGet == [k \in Keys |-> GetOf(i, k)]
          IN /\ \A k \in Keys : LogCaskGet[k].ok
             /\ StatusOf(i).keys = Cardinality(Gotten(LogCaskGet))
             /\ StatusOf(i).size = PairsSize(Gotten(LogCaskGet))
             /\ (last.op = "status" /\ last.inst = i) =>
                  /\ last.res.keys = Cardinality(Gotten(LogCaskGet))
                  /\ last.res.size = PairsSize(Gotten(LogCaskGet))

\* status is called when one key has been deleted and the other holds a
\* value of one byte.
C15_Witness ==
  /\ last.op = "status"
  /\ last.res.keys = 1 /\ last.res.size = 2
  /\ Memory_status(data).size = 2
  /\ Len(hist) = 3
  /\ \E n \in 1..3 : hist[n].op = "delete"

\* What a scan over lo, hi is to yield from the front of the map live (key
\* to the value last set, deleted keys left out): the keys of live within
\* the bounds, each once, ascending in lexicographic byte order, each with
\* the value last set.
YieldsRange(items, live, lo, hi) ==
  LET within == {k \in DOMAIN live : AboveLower(lo, k) /\ BelowUpper(hi, k)}
  IN /\ Len(items) = Cardinality(within)
     /\ \A k \in within : \E n \in 1..Len(items) : items[n] = <<k, live[k]>>
     /\ \A n \in 1..Len(items) - 1 :
          LET a == items[n][1]
              b == items[n + 1][1]
          IN \E j \in 1..Len(a) + 1 :
               /\ \A x \in 1..j - 1 : x <= Len(b) /\ a[x] = b[x]
               /\ j <= Len(b)
               /\ j <= Len(a) => a[j] < b[j]

BeginningWith(items, prefix) ==
  LET Begins(item) ==
        /\ Len(item[1]) >= Len(prefix)
        /\ \A n \in 1..Len(prefix) : item[1][n] = prefix[n]
  IN SelectSeq(items, Begins)

\* C17: for every prefix, the empty one, those ending in 0xFF and those of
\* 0xFF bytes only among them, scan_prefix yields exactly the pairs of
\* scan(..) whose key begins with the prefix, in the same order.
C17_ScanPrefixIsFilter ==
  /\ \A i \in alive : \A prefix \in Prefixes :
       /\ ScanOf(i, Unbounded, Unbounded).ok
       /\ ScanPrefixOf(i, prefix)
            = Ok(BeginningWith(ScanOf(i, Unbounded, Unbounded).val, prefix))
  /\ last.op = "scan_prefix" =>
       /\ last.ok
       /\ last.res = BeginningWith(ScanOf(last.inst, Unbounded, Unbounded).val,
                                   last.key)

\* scan_prefix of a prefix ending in 0xFF yields one of three live keys, the
\* others lying below and above it.
C17_Witness ==
  /\ last.op = "scan_prefix" /\ last.key = <<97, 255>>
  /\ Len(last.res) = 1
  /\ KeysIn(ScanOf(last.inst, Unbounded, Unbounded))
       = {<<97>>, <<97, 255>>, <<255>>}

\* C18: a successful delete returns an affected count of 1 whether or not
\* the key was present, from the LogCask as from the Memory.
C18_DeleteReturnsOne ==
  last.op = "delete" =>
    /\ last.ok
    /\ last.res.type = "i64" /\ last.res.n = 1
    /\ Memory_delete_returns.type = "i64" /\ Memory_delete_returns.n = 1

\* A step that is a delete by handle i of a key its KeyDir does not hold.
DeletesAbsent(i) ==
  /\ last'.op = "delete" /\ last'.inst = i
  /\ Len(hist') = Len(hist) + 1
  /\ last'.key \notin DOMAIN keydir[i]

DeletesAgain(i) ==
  /\ last.op = "delete" /\ last.inst = i /\ last.ok
  /\ last'.op = "delete" /\ last'.inst = i /\ last'.key = last.key
  /\ Len(hist') = Len(hist) + 1

\* C20: delete is idempotent: after delete(k); delete(k) every get and every
\* scan of the LogCask and of the Memory returns what it returned after the
\* first delete(k).
C20_DeleteIdempotent ==
  [][\A i \in Inst : DeletesAgain(i) =>
       LET after == disk'[LivePath].bytes
       IN /\ last'.ok
          /\ \A k \in Keys :
               /\ LogCask_get(after, keydir'[i], k) = GetOf(i, k)
               /\ Memory_get(data', k) = Memory_get(data, k)
          /\ LogCask_get(after, keydir'[i], last'.key) = Ok(None)
          /\ \A lo \in AllBounds, hi \in AllBounds :
               ~RangePanics(lo, hi) =>
                 /\ LogCask_scan(after, keydir'[i], lo, hi) = ScanOf(i, lo, hi)
                 /\ Memory_scan(data', lo, hi) = Memory_scan(data, lo, hi)]_vars

\* A key that held a value has been deleted twice in a row.
C20_Witness ==
  /\ Len(hist) = 3
  /\ hist[1].op = "set" /\ hist[1].key = last.key /\ hist[1].val # <<>>
  /\ hist[2] = DeleteOp(last.key) /\ hist[3] = DeleteOp(last.key)
  /\ last.op = "delete" /\ last.ok
  /\ GetOf(last.inst, last.key) = Ok(None)

\* A step that is set(key, value) by handle i straight after the same
\* set(key, value) by i.
SetsAgain(i) ==
  /\ last.op = "set" /\ last.inst = i /\ last.ok
  /\ last'.op = "set" /\ last'.inst = i
  /\ last'.key = last.key /\ last'.val = last.val
  /\ Len(hist') = Len(hist) + 1

\* What get, scan and scan_prefix of a LogCask with these bytes and KeyDir
\* return, by key, by bounds and by prefix.
Answers(bytes, kdir) ==
  [get |-> [k \in Keys |-> LogCask_get(bytes, kdir, k)],
   scan |-> [r \in {b \in AllBounds \X AllBounds : ~RangePanics(b[1], b[2])}
               |-> LogCask_scan(bytes, kdir, r[1], r[2])],
   scan_prefix |-> [prefix \in Keys |-> LogCask_scan_prefix(bytes, kdir, prefix)]]

\* C21 as stated: a second set(k, v) straight after set(k, v) changes no
\* result of get, scan, scan_prefix or status.
C21_SetTwiceSameStatus ==
  [][\A i \in Inst : SetsAgain(i) =>
       LET after == disk'[LivePath].bytes
       IN /\ Answers(after, keydir'[i]) = Answers(LiveBytes, keydir[i])
          /\ LogCask_status(after, keydir'[i]) = StatusOf(i)]_vars

\* C21, amended: a second set(k, v) straight after set(k, v) changes no
\* result of get, scan or scan_prefix and leaves the keys, size and
\* live_disk_size of status as they were; total_disk_size and
\* garbage_disk_size of status each grow by 8 + len(k) + len(v).
C21_SetTwiceSameAnswers ==
  [][\A i \in Inst : SetsAgain(i) =>
       LET after == disk'[LivePath].bytes
           now == LogCask_status(after, keydir'[i])
           was == StatusOf(i)
           grown == 8 + Len(last'.key) + Len(last'.val)
       IN /\ Answers(after, keydir'[i]) = Answers(LiveBytes, keydir[i])
          /\ LogCask_get(after, keydir'[i], last'.key) = Ok(Some(last'.val))
          /\ now.name = was.name
          /\ now.keys = was.keys
          /\ now.size = was.size
          /\ now.live_disk_size = was.live_disk_size
          /\ now.total_disk_size = was.total_disk_size + grown
          /\ now.garbage_disk_size = was.garbage_disk_size + grown
          /\ Memory_get(data', last'.key) = Memory_get(data, last'.key)
          /\ Memory_status(data') = Memory_status(data)]_vars

\* The same non-empty value has been set twice in a row for a key while the
\* other key is live.
C21_Witness ==
  /\ Len(hist) = 3
  /\ hist[1].op = "set" /\ hist[1].key # last.key
  /\ hist[2] = SetOp(last.key, <<5>>) /\ hist[3] = hist[2]
  /\ last.op = "set" /\ last.ok
  /\ StatusOf(last.inst).keys = 2
  /\ StatusOf(last.inst).garbage_disk_size = 8 + Len(last.key) + 1

\* The bytes the live entries of a history take in a log: 8 + len(key) +
\* len(value) for every key the history leaves live.
LiveSize(h) ==
  PairsSize({<<k, Replay(h)[k]>> : k \in DOMAIN Replay(h)})
    + 8 * Cardinality(DOMAIN Replay(h))

\* C22: new_compact on a log that was closed compacts exactly when the log
\* holds garbage and garbage / total is at least the threshold.  When it
\* compacts, status has the live size as total and no garbage; when it does
\* not, status is the status before the close.
C22_NewCompactThreshold ==
  (pre.kind = "drop" /\ last.op = "new_compact" /\ last.ok) =>
    LET total == EntryEnd(pre.hist, Len(pre.hist))
        garbage == total - LiveSize(pre.hist)
        due == /\ garbage > 0
               /\ garbage * last.key.d >= last.key.n * total
        st == StatusOf(last.inst)
    IN /\ pre.status.total_disk_size = total
       /\ pre.status.garbage_disk_size = garbage
       /\ due <=> last.res = "compacted"
       /\ due => /\ st.total_disk_size = pre.status.live_disk_size
                 /\ st.live_disk_size = pre.status.live_disk_size
                 /\ st.garbage_disk_size = 0
                 /\ st.keys = pre.status.keys /\ st.size = pre.status.size
       /\ ~due => st = pre.status /\ hist = pre.hist

\* new_compact with a threshold equal to the ratio (1/2) has compacted a
\* log of one live key.
C22_Witness ==
  /\ pre.kind = "drop" /\ last.op = "new_compact" /\ last.ok
  /\ last.key = [n |-> 1, d |-> 2]
  /\ pre.status.garbage_disk_size * 2 = pre.status.total_disk_size
  /\ pre.status.garbage_disk_size > 0
  /\ last.res = "compacted"
  /\ StatusOf(last.inst).keys = 1

\* C23: a key whose last write set the empty value is returned by get as
\* Some of the empty value, in the process that wrote it as after close and
\* reopen, its entry carrying the value length 0, which the recovery scan
\* reads as a value; and after a delete of the empty key get returns None
\* for it.
C23_EmptyIsData ==
  \A i \in alive : \A k \in Keys :
    LET w == LastWrite(hist, k)
        at == EntryEnd(hist, LastWriteAt(hist, k) - 1)
        scanned == build_keydir(LiveBytes).keydir
    IN /\ w = Some(SetOp(k, <<>>)) =>
            /\ GetOf(i, k) = Ok(Some(<<>>))
            /\ Slice(LiveBytes, at + 4, 4) = <<0, 0, 0, 0>>
            /\ k \in DOMAIN scanned /\ scanned[k][2] = 0
       /\ w = Some(DeleteOp(k)) =>
            /\ GetOf(i, k) = Ok(None)
            /\ Slice(LiveBytes, at + 4, 4) = <<255, 255, 255, 255>>
            /\ k \notin DOMAIN scanned

\* The log has been reopened after a close; the empty key holds the empty
\* value and the other key has been deleted.
C23_Witness ==
  /\ pre.kind = "drop" /\ last.op = "open" /\ last.ok
  /\ LastWrite(hist, <<>>) = Some(SetOp(<<>>, <<>>))
  /\ LastWrite(hist, <<97>>) = Some(DeleteOp(<<97>>))
  /\ GetOf(last.inst, <<>>) = Ok(Some(<<>>))
  /\ keydir[last.inst] = build_keydir(LiveBytes).keydir

\* The offsets at which the recovery scan of these bytes, begun at pos,
\* reads an entry that it accepts.
RECURSIVE Accepted(_, _)
Accepted(bytes, pos) ==
  IF pos >= Len(bytes) \/ read_entry(bytes, pos).eof THEN {}
  ELSE LET e == read_entry(bytes, pos)
       IN {pos} \cup Accepted(bytes, e.value_pos +
                                (IF e.value_len = None THEN 0 ELSE e.value_len[1]))

\* The signed value length field of the header at pos.
ValueLenField(bytes, pos) == i32_from_be_bytes(Slice(bytes, pos + 4, 4))

\* C24: the recovery scan rejects a header whose value length is negative
\* but not -1: the file is cut at the start of that entry, so that the file
\* of an open engine holds no entry with such a header.
C24_NegativeLengthRejected ==
  \A i \in alive : \A pos \in Accepted(LiveBytes, 0) :
    ValueLenField(LiveBytes, pos) >= -1

\* Whether the bytes from pos on are whole entries of the documented
\* format and nothing else: a header of a key length and of a value length
\* that is -1 or not negative, then the key and the value in full.
RECURSIVE WholeEntries(_, _)
WholeEntries(bytes, pos) ==
  IF pos = Len(bytes) THEN TRUE
  ELSE IF pos + 8 > Len(bytes) \/ bytes[pos + 1] >= 128 THEN FALSE
  ELSE LET key_len == BeValue(Slice(bytes, pos, 4))
           value_len == ValueLenField(bytes, pos)
           room == Len(bytes) - pos - 8
       IN /\ value_len >= -1
          /\ key_len <= room
          /\ value_len <= room - key_len
          /\ WholeEntries(bytes, pos + 8 + key_len +
                                   (IF value_len > 0 THEN value_len ELSE 0))

\* The bytes at the log's path, none when there is no file.
FileBytes == IF LivePath \in DOMAIN disk THEN LiveBytes ELSE <<>>

\* C25: an open leaves at the log's path a prefix of what was there before
\* it; a file that consists of whole entries only is left as it is, and so
\* is the file when the open fails.
C25_RecoveryOnlyTruncates ==
  [][last'.op = "open" =>
       LET before == FileBytes
           after == disk'[LivePath].bytes
       IN /\ Len(after) <= Len(before)
          /\ after = Take(before, Len(after))
          /\ WholeEntries(before, 0) => after = before
          /\ ~last'.ok => after = before]_vars

\* An open has cut a file another program left: an entry is kept and the
\* bytes after it are gone.
C25_Witness ==
  /\ pre.kind = "foreign" /\ last.op = "open" /\ last.ok
  /\ Len(LiveBytes) >= 8
  /\ Len(LiveBytes) < Len(pre.engine.bytes)
  /\ BTreeLen(keydir[last.inst]) = 1

\* C26: a set or delete leaves the bytes the file held where they were and
\* adds 8 + len(key) + len(value) bytes after them (no value for a delete),
\* write_entry returning the old length and that entry length; get, scan,
\* status and flush leave the file as it is.
C26_AppendOnly ==
  [][LET before == FileBytes
         after == disk'[LivePath].bytes
         grown == 8 + Len(last'.key) + Len(last'.val)
         w == write_entry(before, last'.key,
                          IF last'.op = "set" THEN Some(last'.val) ELSE None)
     IN /\ (last'.op \in {"set", "delete"} /\ Len(hist') = Len(hist) + 1) =>
             /\ Len(after) = Len(before) + grown
             /\ Take(after, Len(before)) = before
             /\ w.pos = Len(before) /\ w.len = grown
             /\ w.bytes = after
        /\ last'.op \in {"get", "scan", "status", "flush"} =>
             after = before]_vars

\* A delete has been appended after a set of a non-empty value, and a flush
\* followed.
C26_Witness ==
  /\ last.op = "flush"
  /\ Len(hist) = 2
  /\ hist[1].op = "set" /\ hist[1].val # <<>>
  /\ hist[2].op = "delete" /\ hist[2].key # <<>>
  /\ Len(LiveBytes) = EntrySize(hist[1]) + 9
  /\ disk[LivePath].synced = Len(LiveBytes)

\* C27: for keys and values of at most 2^31 - 1 bytes each, a set succeeds
\* and the get after it returns the bytes of the value: the header holds
\* the two lengths, write_entry returns the entry length
\* 8 + key_length + value_length, and the KeyDir holds the offset where
\* the value was written.
C27_SizesRoundTrip ==
  sized.set # "new" =>
    LET e == sized.entry
        value_len == sized.written[sized.key_len][2]
    IN /\ sized.set = "Ok"
       /\ ~u32_above_i32_max(Take(e.header, 4))
       /\ BeValue(Take(e.header, 4)) = sized.key_len
       /\ i32_from_be_bytes(Slice(e.header, 4, 4)) = value_len
       /\ WideAdd(e.pos, e.len).w = sized.file_len
       /\ sized.keydir[sized.key_len] = sized.written[sized.key_len]
       /\ sized.get = Ok(Some(sized.written[sized.key_len]))

\* The offset of the first header, from pos on, that is read in full and
\* declares a key region or a value region that passes the end of the file
\* (no offset when there is none): headers are followed as the format
\* gives them, up to the end of the file, a header cut short, or a value
\* length below -1.
RECURSIVE Overruns(_, _)
Overruns(bytes, pos) ==
  IF pos + 8 > Len(bytes) THEN {}
  ELSE IF bytes[pos + 1] >= 128 THEN {pos}
  ELSE LET key_len == BeValue(Slice(bytes, pos, 4))
           value_len == ValueLenField(bytes, pos)
           room == Len(bytes) - pos - 8
       IN IF key_len > room THEN {pos}
          ELSE IF value_len < -1 THEN {}
          ELSE IF value_len > room - key_len THEN {pos}
          ELSE Overruns(bytes, pos + 8 + key_len +
                                 (IF value_len > 0 THEN value_len ELSE 0))

\* C28: whatever bytes the file holds, an open that finds the lock free
\* succeeds; when a header declares a key or value region that passes the
\* end of the file, the file is cut at the start of that entry and the
\* KeyDir holds nothing from that offset on; and every (offset, length) of
\* the KeyDir lies within the file.
C28_OverrunTruncates ==
  [][(last'.op = "open" /\ try_lock_exclusive(LivePath)) =>
       LET before == FileBytes
           after == disk'[LivePath].bytes
           kdir == keydir'[last'.inst]
       IN /\ last'.ok
          /\ \A k \in DOMAIN kdir : kdir[k][1] + kdir[k][2] <= Len(after)
          /\ \A p \in Overruns(before, 0) :
               /\ after = Take(before, p)
               /\ \A k \in DOMAIN kdir : kdir[k][1] + kdir[k][2] <= p]_vars

\* A file held a whole entry and then the header and the key of an entry
\* whose value is missing: the open kept the first entry only.
C28_Witness ==
  /\ pre.kind = "foreign" /\ last.op = "open" /\ last.ok
  /\ Len(pre.engine.bytes) = 17
  /\ Overruns(pre.engine.bytes, 0) = {8}
  /\ ValueLenField(pre.engine.bytes, 8) = 1
  /\ Len(LiveBytes) = 8
  /\ DOMAIN keydir[last.inst] = {<<>>}

\* The file that holds one entry with a value for each of the keys, in their
\* order, and nothing else: key length, value length, key, value.
RECURSIVE EntriesOf(_, _)
EntriesOf(map, keys) ==
  IF keys = <<>> THEN <<>>
  ELSE LET k == Head(keys)
       IN BeBytes(Len(k)) \o BeBytes(Len(map[k])) \o k \o map[k]
            \o EntriesOf(map, Tail(keys))

\* C29: after a successful compact the file at the log's path is one entry
\* with a value per live key, in ascending key order, and nothing else, and
\* the KeyDir holds for each live key the offset and length of the value of
\* its entry in that file.
C29_CompactedFile ==
  (last.op = "compact" /\ last.ok) =>
    LET live == Replay(pre.hist)
        keys == SortKeys(DOMAIN live)
        kdir == keydir[last.inst]
    IN /\ LiveBytes = EntriesOf(live, keys)
       /\ DOMAIN kdir = DOMAIN live
       /\ \A n \in 1..Len(keys) :
            /\ kdir[keys[n]][1] =
                 Len(EntriesOf(live, SubSeq(keys, 1, n))) - Len(live[keys[n]])
            /\ kdir[keys[n]][2] = Len(live[keys[n]])
            /\ Slice(LiveBytes, kdir[keys[n]][1], kdir[keys[n]][2])
                 = live[keys[n]]

\* A log of a set of each key and a delete has been compacted into the two
\* entries of "" and "a", "a" holding a value.
C29_Witness ==
  /\ last.op = "compact" /\ last.ok /\ pre.kind = "compact"
  /\ Len(pre.hist) = 3
  /\ DOMAIN Replay(pre.hist) = {<<>>, <<97>>}
  /\ Replay(pre.hist)[<<97>>] = <<5>>
  /\ Len(LiveBytes) = 8 + Len(Replay(pre.hist)[<<>>]) + 10
  /\ keydir[last.inst][<<97>>][1] = Len(LiveBytes) - 1

\* C30: when the process stops at any step of compact, the file at the log's
\* path is the file as it was before the compaction at every step up to the
\* rename and the whole new log at the rename, and a fresh open of it
\* recovers, without cutting anything, exactly the keys and values that were
\* live before the compaction.
C30_CompactCrashKeepsLiveSet ==
  pre.kind = "compact crash" =>
    LET live == Replay(pre.hist)
        recovered == build_keydir(LiveBytes)
    IN /\ last.op = "crash" =>
            /\ last.res # "renamed" => LiveBytes = pre.engine.bytes
            /\ last.res = "renamed" =>
                 LiveBytes = EntriesOf(live, SortKeys(DOMAIN live))
            /\ recovered.len = Len(LiveBytes)
            /\ \A k \in Keys :
                 LogCask_get(LiveBytes, recovered.keydir, k)
                   = Ok(BTreeGet(live, k))
       /\ (last.op = "open" /\ last.ok) =>
            /\ \A k \in Keys : GetOf(last.inst, k) = Ok(BTreeGet(live, k))
            /\ ScanOf(last.inst, Unbounded, Unbounded)
                 = Ok(RefRange(live, Unbounded, Unbounded))

\* The process stopped while the new log held its first entry and part of
\* the second, a file left by an earlier stop being at the new path before,
\* and the log has been opened again: both keys are live, and the log still
\* holds the tombstone it held before.
C30_Witness ==
  /\ pre.kind = "compact crash"
  /\ last.op = "open" /\ last.ok
  /\ TmpPath \in DOMAIN disk
  /\ Len(disk[TmpPath].bytes) = 12
  /\ Len(pre.hist) = 3 /\ pre.hist[1].op = "delete"
  /\ DOMAIN keydir[last.inst] = {<<>>, <<97>>}
  /\ LiveBytes = pre.engine.bytes

\* C31: a successful compact gives the file, the KeyDir and the status that
\* it gives when there is no file at the new path, whatever a failed
\* compaction left there, and leaves no file at the new path.
C31_LeftoverIgnored ==
  (last.op = "compact" /\ last.ok /\ pre.kind = "compact") =>
    LET w == write_log(pre.engine.bytes, pre.engine.keydir, <<>>)
        live == Replay(pre.hist)
    IN /\ LiveBytes = w.bytes
       /\ LiveBytes = EntriesOf(live, SortKeys(DOMAIN live))
       /\ keydir[last.inst] = w.keydir
       /\ StatusOf(last.inst) = LogCask_status(w.bytes, w.keydir)
       /\ TmpPath \notin DOMAIN disk

\* A compaction failed after it had written the entry of "" and four bytes
\* of the entry of "a"; "" was deleted, and the next compaction succeeded
\* over the 13 bytes left at the new path.
C31_Witness ==
  /\ last.op = "compact" /\ last.ok /\ pre.kind = "compact"
  /\ pre.t = 13
  /\ Len(pre.hist) = 3 /\ pre.hist[3] = DeleteOp(<<>>)
  /\ Len(LiveBytes) = 10
  /\ DOMAIN keydir[last.inst] = {<<97>>}

\* C32: after a set or delete that the I/O error of its append ended, the
\* KeyDir is the KeyDir before the call and get returns for every key what
\* it returned before the call.
C32_FailedWriteKeepsKeyDir ==
  (last.op \in {"set", "delete"} /\ ~last.ok) =>
    /\ keydir[last.inst] = pre.engine.keydir
    /\ \A k \in Keys :
         GetOf(last.inst, k)
           = LogCask_get(pre.engine.bytes, pre.engine.keydir, k)

\* A set of a new value for a key that holds a value failed after the
\* header and the key were written: the key still holds the old value.
C32_Witness ==
  /\ last.op = "set" /\ ~last.ok /\ last.res = 9
  /\ last.key = <<97>> /\ last.val = <<5>>
  /\ hist = <<SetOp(<<97>>, <<>>)>>
  /\ Len(LiveBytes) = 18
  /\ GetOf(last.inst, <<97>>) = Ok(Some(<<>>))

\* C33: a drop, whether its flush succeeds or fails, leaves the log's path
\* unlocked and the handle closed, and the open that follows a drop
\* succeeds and holds the lock.
C33_DropReleasesLock ==
  [][/\ last'.op = "drop" =>
          /\ lock'[LivePath] = NoInst
          /\ last'.inst \notin alive'
          /\ try_lock_exclusive(LivePath)'
     /\ (last.op = "drop" /\ last'.op = "open") =>
          /\ last'.ok
          /\ lock'[LivePath] = last'.inst
          /\ last'.inst \in alive']_vars

\* The flush of a drop failed after two writes that were never flushed, and
\* the log has been opened again: the handle holds the lock and both keys.
C33_Witness ==
  /\ last.op = "open" /\ last.ok
  /\ pre.kind = "drop" /\ pre.hist = hist
  /\ Len(hist) = 2
  /\ disk[LivePath].synced = 0
  /\ lock[LivePath] = last.inst
  /\ BTreeLen(keydir[last.inst]) = 2

\* C34: from the first step of a compaction to its return and after it, the
\* log's path is locked by the handle that compacts, try_lock_exclusive on
\* it fails, and no open of it by another handle has succeeded.
C34_LockHeldAcrossCompact ==
  (Compacting \/ pre.kind = "compact") =>
    /\ lock[LivePath] \in alive
    /\ ~try_lock_exclusive(LivePath)
    /\ Cardinality(alive) = 1
    /\ last.op = "open" => ~last.ok
    /\ pre.kind = "compact" => lock[TmpPath] = NoInst

\* The new log has been renamed over the log's path, the old log is not yet
\* dropped, and the open of another handle has just been refused.
C34_Witness ==
  /\ pre.kind = "compact renamed"
  /\ last.op = "open" /\ ~last.ok
  /\ last.inst \notin alive
  /\ TmpPath \notin DOMAIN disk
  /\ Len(LiveBytes) < Len(pre.engine.bytes)

(***************************************************************************)
(* The engine opened at any of EnginePaths.  compact() derives its new     *)
(* path with set_extension("new"); for a log whose extension is "new"      *)
(* already that is the log's own path, and Log::new then asks for a lock   *)
(* on the file the engine holds locked.                                    *)
(***************************************************************************)
\* LogCask::compact refused in write_log: Log::new(tmp_path) opens the file
\* at tmp_path, try_lock_exclusive finds the lock held and `?` returns the
\* error before set_len(0); the engine is left as it was.
CompactRefused(i) ==
  /\ i \in alive
  /\ LET tmp_path == set_extension(LivePath, "new")
     IN /\ ~try_lock_exclusive(tmp_path)
        /\ disk' = OpenOrCreate(tmp_path)
  /\ pre' = NoPre
  /\ last' = Call("compact", i, <<>>, <<>>, FALSE, "lock held")
  /\ UNCHANGED <<lock, alive, keydir, hist, nflushed, data, m, sized, failed,
                 path>>

CompactRefusedStep == \E i \in Inst : CompactRefused(i)

InitPaths ==
  /\ path \in EnginePaths
  /\ disk = [p \in {} |-> File(<<>>, 0)]
  /\ lock = [p \in Paths |-> NoInst]
  /\ alive = {}
  /\ keydir = [i \in Inst |-> BTreeNew]
  /\ hist = <<>>
  /\ nflushed = 0
  /\ pre = NoPre
  /\ last = Call("init", NoInst, <<>>, <<>>, TRUE, <<>>)
  /\ data = BTreeNew
  /\ m = BTreeNew
  /\ sized = SizedNew(TRUE)
  /\ failed = 0

NextPaths ==
  \/ OpenStep
  \/ SetStep
  \/ DeleteStep
  \/ CompactStep
  \/ CompactRefusedStep

SpecPaths == InitPaths /\ [][NextPaths]_vars

\* C35: for every path an engine is open at, the path compact() derives for
\* the new file (the extension replaced by "new") differs from the log's
\* path, so that no compact() is refused the lock by the engine's own lock on
\* the log -- also when the extension of the log's path is "new" already.
C35_TmpPathDistinct ==
  alive # {} =>
    /\ set_extension(LivePath, "new") # LivePath
    /\ ~(last.op = "compact" /\ ~last.ok /\ last.res = "lock held")

(***************************************************************************)
(* Flush, compaction and a crash.  compact() writes the new file with      *)
(* write_entry, whose flush() empties the BufWriter into the file, and     *)
(* renames it over the log; no sync_all is called on the new file, so      *)
(* after the rename nothing of the log is known to be on the medium.       *)
(***************************************************************************)
\* A successful compact(), with the writes before it and the number of them
\* the last flush covered kept for comparison.
CompactFlushed ==
  \E i \in Inst :
    /\ nflushed > 0
    /\ LogCask_compact(i)
    /\ last'.ok
    /\ pre' = [NoPre EXCEPT !.kind = "compact flushed", !.hist = hist,
                            !.n = nflushed]

\* The process dies right after that compact().
CrashCompacted ==
  /\ pre.kind = "compact flushed"
  /\ last.op = "compact"
  /\ \E t \in 0..Len(LiveBytes) : Crash(t)
  /\ pre' = [pre EXCEPT !.kind = "compact crash"]

NextFlushCompact ==
  \/ OpenStep
  \/ SetStep
  \/ DeleteStep
  \/ FlushStep
  \/ CompactFlushed
  \/ CrashCompacted

SpecFlushCompact == Init /\ [][NextFlushCompact]_vars

\* The keys written by the writes of h after the first n.
WrittenAfter(h, n) == {h[k].key : k \in (n + 1)..Len(h)}

\* C36: after a successful flush, a successful compact() with no further
\* flush, a crash right after it and a reopen, every key that was not
\* written again after the flush has the value (or the absence) that the
\* writes before the flush gave it.
C36_FlushSurvivesCompact ==
  (pre.kind = "compact crash" /\ last.op = "open" /\ last.ok)
  => \A i \in alive : \A key \in Keys \ WrittenAfter(pre.hist, pre.n) :
       GetOf(i, key) = Ok(BTreeGet(Replay(Take(pre.hist, pre.n)), key))

\* C37: in every state of an open engine, also after a set or delete that
\* failed part-way through its append, the log is the whole entries of the
\* writes that succeeded followed by at most one partial entry at its very
\* end: recovery of the file keeps exactly the bytes of the successful
\* writes, and a reopen yields for every key what the open engine yields.
C37_PartialOnlyAtTail ==
  \A i \in alive :
    LET r == build_keydir(LiveBytes)
    IN /\ r.len = EntryEnd(hist, Len(hist))
       /\ \A key \in Keys :
            LogCask_get(Take(LiveBytes, r.len), r.keydir, key) = GetOf(i, key)

(***************************************************************************)
(* status() over the life of one handle: writes, sets whose append an I/O  *)
(* error ends part-way, compactions and status calls.                      *)
(***************************************************************************)
\* A set of a one-byte value that an I/O error ends in the middle of the
\* header or after the header and the first byte behind it.
SetTornStep == \E i \in Inst, key \in Keys, written \in {4, 9} :
  SetFails(i, key, <<5>>, written)

NextStatus ==
  \/ OpenOnce
  \/ SetStep
  \/ DeleteStep
  \/ SetTornStep
  \/ CompactStep
  \/ StatusStep

SpecStatus == Init /\ [][NextStatus]_vars

\* C38: in every state of the one open LogCask, total_disk_size is at least
\* live_disk_size, so that the subtraction that gives garbage_disk_size in
\* status() does not go below zero; the same holds of every Status returned.
C38_GarbageNeverUnderflows ==
  /\ \A i \in alive :
       /\ StatusOf(i).total_disk_size >= StatusOf(i).live_disk_size
       /\ StatusOf(i).garbage_disk_size >= 0
  /\ last.op = "status" =>
       /\ last.res.total_disk_size >= last.res.live_disk_size
       /\ last.res.garbage_disk_size >= 0

\* A status call on a log that holds one live entry behind the four bytes a
\* failed append left: these four bytes are all the garbage there is.
C38_Witness ==
  /\ last.op = "status"
  /\ failed = 1
  /\ last.res.keys = 1
  /\ last.res.live_disk_size = 9
  /\ last.res.total_disk_size = 13
  /\ last.res.garbage_disk_size = 4

\* C39: the scan of an open ends for every file content.  Of the iterations
\* of its loop over the file another program left, each one but a cutting
\* one moves pos at least 8 bytes on and not past the end of the file, a
\* cutting one is the last, there are at most file length / 8 + 1 of them,
\* and the open returns with the file cut where the last one says.
C39_ScanTerminates ==
  (pre.kind = "foreign" /\ last.op = "open" /\ last.ok) =>
    LET before == pre.engine.bytes
        its == build_keydir_iterations(before, 0)
    IN /\ Len(its) <= Len(before) \div 8 + 1
       /\ \A n \in 1..Len(its) :
            /\ its[n].cut => n = Len(its)
            /\ ~its[n].cut => /\ its[n].next >= its[n].pos + 8
                              /\ its[n].next <= Len(before)
            /\ n > 1 => its[n].pos = its[n - 1].next
       /\ Len(LiveBytes) = IF its # <<>> /\ its[Len(its)].cut
                           THEN its[Len(its)].pos ELSE Len(before)

\* An open of a file of 17 bytes, two entries of 8 bytes and one byte more:
\* two iterations that read an entry and a third that cuts the file, which
\* is 17 / 8 + 1 iterations.
C39_Witness ==
  /\ pre.kind = "foreign" /\ last.op = "open" /\ last.ok
  /\ Len(pre.engine.bytes) = 17
  /\ Len(build_keydir_iterations(pre.engine.bytes, 0)) = 3
  /\ build_keydir_iterations(pre.engine.bytes, 0)[3].cut
  /\ Len(LiveBytes) = 16

(***************************************************************************)
(* Recovery twice: a file of any content is opened, closed and opened      *)
(* again with no write in between.                                         *)
(***************************************************************************)
\* Drop for LogCask, with the file and the KeyDir of the handle kept for
\* comparison, and with them the length the file had before the handle
\* opened it.
DropKept(i) ==
  /\ i \in alive
  /\ disk' = [disk EXCEPT ![LivePath] = sync_all(@)]
  /\ nflushed' = Len(hist)
  /\ lock' = [lock EXCEPT ![LivePath] = NoInst]
  /\ alive' = alive \ {i}
  /\ keydir' = [keydir EXCEPT ![i] = BTreeNew]
  /\ pre' = [NoPre EXCEPT
               !.kind = "closed",
               !.t = IF pre.kind = "foreign" THEN Len(pre.engine.bytes)
                     ELSE Len(LiveBytes),
               !.engine = [bytes |-> LiveBytes, keydir |-> keydir[i]]]
  /\ last' = Call("drop", i, <<>>, <<>>, TRUE, <<>>)
  /\ UNCHANGED <<hist, data, m, sized, failed, path>>

DropKeptStep == \E i \in Inst : DropKept(i)

NextReopen ==
  \/ ForeignStep
  \/ OpenStep
  \/ DropKeptStep

SpecReopen == Init /\ [][NextReopen]_vars

\* C40: an open of a file that an earlier open recovered (cutting a torn
\* tail or not) and that was closed with no write since cuts nothing more
\* and builds the KeyDir the earlier open built.
C40_RecoveryIdempotent ==
  (pre.kind = "closed" /\ last.op = "open" /\ last.ok) =>
    /\ LiveBytes = pre.engine.bytes
    /\ keydir[last.inst] = pre.engine.keydir

\* The first open cut a torn tail off a file of 17 bytes and kept one key;
\* the second open finds the 8 bytes and the key the first one left.
C40_Witness ==
  /\ pre.kind = "closed" /\ last.op = "open" /\ last.ok
  /\ pre.t = 17
  /\ Len(pre.engine.bytes) = 8
  /\ Len(LiveBytes) = 8
  /\ DOMAIN keydir[last.inst] = {<<>>}

====
